---- MODULE Spec2Model ----
(***************************************************************************)
(* Type inference of loopy kernels (loopy/type_inference.py): the          *)
(* expression type evaluator (TypeInferenceMapper), the fixed-point driver *)
(* (infer_unknown_types_for_a_single_kernel) and the call-site rewriter    *)
(* (FunctionNameChanger).                                                  *)
(***************************************************************************)
EXTENDS Integers, Sequences, FiniteSets, TLC

\* ------------------------------------------------------------------------
\* Element types.  A dtype is a string; NoneT is Python's None (unknown).
\* "vec4" and "vec4_b" are two numpy dtype objects with fields that are equal
\* by value and distinct by identity; "opaque" is a LoopyType that is no
\* NumpyType.
\* ------------------------------------------------------------------------
NoneT == "None"

\* F applied to the value v: LET x == v IN F(x)
With(v, F(_)) == F(v)

NumpyNative ==
    {"int32", "int64", "uint32", "uint64",
     "float32", "float64", "complex64", "complex128"}

NumpyStruct == {"vec4", "vec4_b", "rec2"}

NumpyTypes == NumpyNative \cup NumpyStruct

NonNumpy == {"opaque"}

\* the value of a dtype object (== of Python compares these)
DVal(t) == IF t = "vec4_b" THEN "vec4" ELSE t

TEq(a, b) == DVal(a) = DVal(b)

is_integral(t) == t \in {"int32", "int64", "uint32", "uint64"}

HasNoFields(t) == t \in NumpyNative

\* np.can_cast(frm, to) with the default 'safe' casting
CanCast(frm, to) ==
    <<frm, to>> \in
      ( {<<t, t>> : t \in NumpyNative}
        \cup {<<t, "complex128">> : t \in NumpyNative}
        \cup {<<t, "float64">> :
                 t \in {"int32", "int64", "uint32", "uint64", "float32"}}
        \cup {<<t, "int64">> : t \in {"int32", "uint32"}}
        \cup {<<"uint32", "uint64">>, <<"float32", "complex64">>} )

\* (np.empty(0, dtype=a) + np.empty(0, dtype=b)).dtype: the least dtype both
\* operands cast to safely
NumpyPromote(a, b) ==
    CHOOSE c \in NumpyNative :
        /\ CanCast(a, c) /\ CanCast(b, c)
        /\ \A d \in NumpyNative : (CanCast(a, d) /\ CanCast(b, d)) => CanCast(c, d)

\* ------------------------------------------------------------------------
\* Expressions.  Every node is a record of the same shape:
\*   op    the node kind
\*   name  variable / function / field name, or the kind of a constant
\*   val   the value of an integer literal
\*   ty    the dtype of a sized constant or the target of a type cast
\*   args  the child expressions (parameters of a call)
\*   kw    keyword parameters of a call: <<key id, expression>> pairs
\* ------------------------------------------------------------------------
Node(op, name, val, ty, args, kw) ==
    [op |-> op, name |-> name, val |-> val, ty |-> ty, args |-> args, kw |-> kw]

IntLit(n) == Node("const", "int", n, NoneT, <<>>, <<>>)
\* an integer literal outside the int32 range: ty is the narrowest signed
\* type holding it, NoneT when int64 does not hold it either
BigIntLit(ty) == Node("const", "bigint", 0, ty, <<>>, <<>>)
\* a non-integer constant; ty is the dtype map_constant deduces, NoneT when
\* it refuses to guess
NumLit(ty) == Node("const", "num", 0, ty, <<>>, <<>>)
Var(n) == Node("var", n, 0, NoneT, <<>>, <<>>)
Sum(es) == Node("sum", "", 0, NoneT, es, <<>>)
Product(es) == Node("product", "", 0, NoneT, es, <<>>)
Quotient(n, d) == Node("quotient", "", 0, NoneT, <<n, d>>, <<>>)
Comparison(l, r) == Node("comparison", "", 0, NoneT, <<l, r>>, <<>>)
LogicalAnd(es) == Node("logical_and", "", 0, NoneT, es, <<>>)
LogicalOr(es) == Node("logical_or", "", 0, NoneT, es, <<>>)
LogicalNot(c) == Node("logical_not", "", 0, NoneT, <<c>>, <<>>)
TypeCast(ty, c) == Node("type_cast", "", 0, ty, <<c>>, <<>>)
Subscript(agg, idx) == Node("subscript", "", 0, NoneT, <<agg, idx>>, <<>>)
Lookup(agg, field) == Node("lookup", field, 0, NoneT, <<agg>>, <<>>)
\* a call whose function is ResolvedFunction(f)
RCall(f, ps) == Node("call", f, 1, NoneT, ps, <<>>)
\* a call whose function is the bare Variable(f)
VCall(f, ps) == Node("call", f, 0, NoneT, ps, <<>>)
RCallKw(f, ps, kw) == Node("call_with_kwargs", f, 1, NoneT, ps, kw)
VCallKw(f, ps, kw) == Node("call_with_kwargs", f, 0, NoneT, ps, kw)
\* a scalar reduction over one inner expression
Reduction(inner) == Node("reduction", "", 0, NoneT, <<inner>>, <<>>)
\* a tuple-typed reduction: the operation takes arg_count arguments
TupleReduction(arg_count, inners) ==
    Node("reduction", "", arg_count, NoneT, inners, <<>>)

IsCall(e) == e.op \in {"call", "call_with_kwargs"}
IsResolved(e) == e.val = 1

is_integer(e) == e.op = "const" /\ e.name = "int"

Abs(n) == IF n < 0 THEN -n ELSE n

SmallIntThreshold == 1024

\* the id of the keyword argument of a call (keyword ids follow the
\* positional ones)
KwId == 100

\* ------------------------------------------------------------------------
\* Callables and the callables table.
\*   base         the name of the generic function
\*   specialized  arg_id_to_dtype is not None
\*   a2d          arg_id_to_dtype: positional ids 0.., keyword ids KwId..,
\*                return slots -1, -2, ..
\*   nres         number of return values of the function
\*   mangler      a ManglerCallable
\* ------------------------------------------------------------------------
EmptyMap == [i \in {} |-> NoneT]

Callable(base, specialized, a2d, nres, mangler) ==
    [base |-> base, specialized |-> specialized, a2d |-> a2d,
     nres |-> nres, mangler |-> mangler]

GenericCallable(base, nres) == Callable(base, FALSE, EmptyMap, nres, FALSE)

\* InKernelCallable.with_types: the specialization of a callable for the
\* given argument types.  When every argument type is known the return slots
\* -1 .. -nres are filled with the type of argument 0; otherwise the mapping
\* is recorded without return slots.
with_types(clbl, a2d) ==
    IF \A i \in DOMAIN a2d : a2d[i] # NoneT
    THEN [clbl EXCEPT !.specialized = TRUE,
                      !.a2d = [i \in DOMAIN a2d \cup {-j : j \in 1..clbl.nres} |->
                                  IF i < 0 THEN a2d[0] ELSE a2d[i]]]
    ELSE [clbl EXCEPT !.specialized = TRUE, !.a2d = a2d]

MaxSpecializations == 6

FreshName(table, base) ==
    LET k == CHOOSE k \in 0..MaxSpecializations :
                 /\ (base \o "_" \o ToString(k)) \notin DOMAIN table
                 /\ \A j \in 0..(k-1) : (base \o "_" \o ToString(j)) \in DOMAIN table
    IN base \o "_" \o ToString(k)

\* CallablesTable.with_callable: the name of an equal callable already in the
\* table, otherwise the callable is stored under a fresh name.
with_callable(table, clbl) ==
    IF \E n \in DOMAIN table : table[n] = clbl
    THEN [table |-> table, id |-> CHOOSE n \in DOMAIN table : table[n] = clbl]
    ELSE LET id == FreshName(table, clbl.base)
         IN [table |-> (id :> clbl) @@ table, id |-> id]

\* CallablesTable.with_added_callable
with_added_callable(table, clbl) == with_callable(table, clbl)

\* ------------------------------------------------------------------------
\* Function manglers (kernel.function_manglers).  A mangler is named by the
\* identifier it matches.  One that goes by the argument types matches when
\* every argument type is known and then reports nres results of the type
\* of argument 0; one that goes by the name alone (by_name) matches whatever
\* the argument types are and reports nres results of type float64.
\* ------------------------------------------------------------------------
NoMatch == [matched |-> FALSE, arg_dtypes |-> <<>>, result_dtypes |-> <<>>]

Mangler(identifier, nres, by_name) ==
    [identifier |-> identifier, nres |-> nres, by_name |-> by_name]

function_mangler(mg, identifier, arg_dtypes) ==
    IF mg.identifier # identifier THEN NoMatch
    ELSE IF mg.by_name
    THEN [matched |-> TRUE, arg_dtypes |-> arg_dtypes,
          result_dtypes |-> [j \in 1..mg.nres |-> "float64"]]
    ELSE IF Len(arg_dtypes) > 0
            /\ \A i \in 1..Len(arg_dtypes) : arg_dtypes[i] # NoneT
    THEN [matched |-> TRUE, arg_dtypes |-> arg_dtypes,
          result_dtypes |-> [j \in 1..mg.nres |-> arg_dtypes[1]]]
    ELSE NoMatch

\* ------------------------------------------------------------------------
\* TypeInferenceMapper.  The mapper object is the record
\*   callables_table, old_calls_to_new_calls, symbols_with_unknown_types,
\*   mangler_calls (the identifier and argument types the kernel's manglers
\*   were called with)
\* together with exc/msg: the exception an evaluation is unwinding with
\* ("none" while it runs normally).  old_calls_to_new_calls is a dict
\* (is_dict, map) or, after line 552 rebinds it, a str.
\* ------------------------------------------------------------------------
NoCalls == [e \in {} |-> ""]

NewCalls == [is_dict |-> TRUE, map |-> NoCalls, str |-> ""]

TypeInferenceMapper(callables_table) ==
    [callables_table |-> callables_table,
     old_calls_to_new_calls |-> NewCalls,
     symbols_with_unknown_types |-> {},
     mangler_calls |-> {},
     exc |-> "none", msg |-> ""]

\* TypeInferenceMapper.copy
copy(m, callables_table) == TypeInferenceMapper(callables_table)

Raise(m, cls, msg) == [m EXCEPT !.exc = cls, !.msg = msg]

Ret(m, res) == [m |-> m, res |-> res]

Failed(r) == r.m.exc # "none"

RECURSIVE Flatten(_)
Flatten(ss) == IF ss = <<>> THEN <<>> ELSE Head(ss) \o Flatten(Tail(ss))

is_single_valued(s) == \A i \in 1..Len(s) : TEq(s[i], s[1])

\* a loop that keeps the dtype it starts from
keep_first_popped(result, numpy_dtypes) == [exc |-> "none", res |-> <<result>>]

\* the while loop of combine: pops the remaining dtypes from the end
RECURSIVE promote_loop(_, _)
promote_loop(result, numpy_dtypes) ==
    IF numpy_dtypes = <<>> THEN [exc |-> "none", res |-> <<result>>]
    ELSE LET other == numpy_dtypes[Len(numpy_dtypes)]
             rest == SubSeq(numpy_dtypes, 1, Len(numpy_dtypes) - 1)
         IN IF HasNoFields(result) /\ HasNoFields(other)
            THEN IF <<result, other>> \in
                        {<<"int32", "float32">>, <<"float32", "int32">>}
                 THEN promote_loop("float32", rest)
                 ELSE promote_loop(NumpyPromote(result, other), rest)
            ELSE IF HasNoFields(result) /\ ~HasNoFields(other)
            THEN promote_loop(other, rest)
            ELSE IF ~HasNoFields(result) /\ HasNoFields(other)
            THEN promote_loop(result, rest)
            ELSE IF result # other
            THEN [exc |-> "TypeInferenceFailure", res |-> <<>>]
            ELSE promote_loop(result, rest)

\* TypeInferenceMapper.combine
combine(dtype_sets) ==
    LET dtypes == Flatten(dtype_sets) IN
    IF ~(\A i \in 1..Len(dtypes) : dtypes[i] \in NumpyTypes)
    THEN IF ~is_single_valued(dtypes)
         THEN [exc |-> "TypeInferenceFailure", res |-> <<>>]
         ELSE [exc |-> "none", res |-> <<dtypes[1]>>]
    ELSE IF dtypes = <<>> THEN [exc |-> "none", res |-> <<>>]
    ELSE IF is_single_valued(dtypes) THEN [exc |-> "none", res |-> <<dtypes[1]>>]
    ELSE promote_loop(dtypes[Len(dtypes)], SubSeq(dtypes, 1, Len(dtypes) - 1))

\* the result of combine as the result of a mapper method
Combined(m, dtype_sets) ==
    With(combine(dtype_sets), LAMBDA c :
        IF c.exc = "none" THEN Ret(m, c.res)
        ELSE Ret(Raise(m, c.exc, "combine"), <<>>))

\* ------------------------------------------------------------------------
\* The evaluator.  k is the kernel as the mapper reads it:
\*   inames, index_dtype, function_manglers
\* and env is new_assignments followed by the kernel's arguments and
\* temporaries: a function from the known names to their dtype (NoneT when
\* the dtype is None).  Every method returns Ret(mapper, list of dtypes).
\* ------------------------------------------------------------------------
RECURSIVE rec(_, _, _, _)
RECURSIVE map_call(_, _, _, _, _)
RECURSIVE map_reduction(_, _, _, _, _)

\* [self.rec(e) for e in es], left to right; stops at the first exception
RECURSIVE rec_all(_, _, _, _)
rec_all(es, m, k, env) ==
    IF es = <<>> THEN [m |-> m, sets |-> <<>>]
    ELSE With(rec(Head(es), m, k, env), LAMBDA h :
             IF Failed(h) THEN [m |-> h.m, sets |-> <<>>]
             ELSE With(rec_all(Tail(es), h.m, k, env), LAMBDA t :
                      [m |-> t.m, sets |-> <<h.res>> \o t.sets]))

\* the elements of s at the indices that satisfy keep, in order
RECURSIVE SelectIdx(_, _, _)
SelectIdx(s, keep, i) ==
    IF i > Len(s) THEN <<>>
    ELSE (IF i \in keep THEN <<s[i]>> ELSE <<>>) \o SelectIdx(s, keep, i + 1)

\* a sum that combines the types of all its operands
sum_combining_all(e, m, k, env) ==
    With(rec_all(e.args, m, k, env), LAMBDA r :
        IF r.m.exc # "none" THEN Ret(r.m, <<>>) ELSE Combined(r.m, r.sets))

map_sum(e, m, k, env) ==
    With(rec_all(e.args, m, k, env), LAMBDA r :
        IF r.m.exc # "none" THEN Ret(r.m, <<>>)
        ELSE
        LET idx == 1..Len(e.args)
            small == {i \in idx : is_integer(e.args[i])
                                     /\ Abs(e.args[i].val) < SmallIntThreshold}
            dtype_sets == SelectIdx(r.sets, idx \ small, 1)
            small_integer_dtype_sets == SelectIdx(r.sets, small, 1)
            all_integral == \A i \in 1..Len(dtype_sets) :
                               \A j \in 1..Len(dtype_sets[i]) :
                                   is_integral(dtype_sets[i][j])
        IN Combined(r.m, IF all_integral
                         THEN dtype_sets \o small_integer_dtype_sets
                         ELSE dtype_sets))

\* a quotient typed by the general combination rule alone
quotient_as_combination(e, m, k, env) ==
    With(rec_all(e.args, m, k, env), LAMBDA r :
        IF r.m.exc # "none" THEN Ret(r.m, <<>>) ELSE Combined(r.m, r.sets))

map_quotient(e, m, k, env) ==
    With(rec_all(e.args, m, k, env), LAMBDA r :
        IF r.m.exc # "none" THEN Ret(r.m, <<>>)
        ELSE
        LET dtypes == r.sets[1] \o r.sets[2] IN
        IF \A i \in 1..Len(dtypes) : is_integral(dtypes[i])
        THEN Ret(r.m, <<"float64">>)
        ELSE Combined(r.m, <<r.sets[1], r.sets[2]>>))

map_constant(e, m) ==
    IF e.name = "int" THEN Ret(m, <<"int32">>)
    ELSE IF e.ty = NoneT THEN Ret(Raise(m, "TypeInferenceFailure", "constant"), <<>>)
    ELSE Ret(m, <<e.ty>>)

map_type_cast(e, m, k, env) ==
    With(rec(e.args[1], m, k, env), LAMBDA r :
        IF Failed(r) THEN r
        ELSE IF Len(r.res) # 1 THEN Ret(Raise(r.m, "ValueError", "unpack"), <<>>)
        ELSE IF r.res[1] \notin NumpyNative
        THEN Ret(Raise(r.m, "LoopyError", "cast"), <<>>)
        ELSE Ret(r.m, <<e.ty>>))

map_subscript(e, m, k, env) == rec(e.args[1], m, k, env)

map_variable(e, m, k, env) ==
    IF e.name \in k.inames THEN Ret(m, <<k.index_dtype>>)
    ELSE IF e.name \notin DOMAIN env
    THEN Ret(Raise(m, "TypeInferenceFailure", "name not known"), <<>>)
    ELSE IF env[e.name] = NoneT
    THEN Ret([m EXCEPT !.symbols_with_unknown_types = @ \cup {e.name}], <<>>)
    ELSE Ret(m, <<env[e.name]>>)

\* the fields of a structured dtype
Fields(t) == IF DVal(t) = "vec4" THEN [s0 |-> "float32"]
             ELSE IF t = "rec2" THEN [re |-> "float32", n |-> "int32"]
             ELSE [none |-> NoneT]

map_lookup(e, m, k, env) ==
    With(rec(e.args[1], m, k, env), LAMBDA r :
        IF Failed(r) \/ r.res = <<>> THEN r
        ELSE IF HasNoFields(r.res[1]) \/ r.res[1] \notin NumpyTypes
        THEN Ret(Raise(r.m, "LoopyError", "lookup non-aggregate"), <<>>)
        ELSE IF e.name \notin DOMAIN Fields(r.res[1])
        THEN Ret(Raise(r.m, "LoopyError", "lookup field"), <<>>)
        ELSE Ret(r.m, <<Fields(r.res[1])[e.name]>>))

\* TypeInferenceMapper.__call__ with return_tuple=False, return_dtype_set=False
call_single(e, m, k, env) ==
    With(rec(e, m, k, env), LAMBDA r :
        IF Failed(r) THEN r
        ELSE IF r.res = <<>>
        THEN Ret(Raise(r.m, "DependencyTypeInferenceFailure", "unknown"), <<>>)
        ELSE r)

map_comparison(e, m, k, env) ==
    With(call_single(e.args[1], m, k, env), LAMBDA l :
        IF Failed(l) THEN Ret(l.m, <<>>)
        ELSE With(call_single(e.args[2], l.m, k, env), LAMBDA r :
                 IF Failed(r) THEN Ret(r.m, <<>>)
                 ELSE Ret(r.m, <<"int32">>)))

map_logical_not(e, m, k, env) == Ret(m, <<"int32">>)

map_logical_and(e, m, k, env) ==
    With(rec_all(e.args, m, k, env), LAMBDA r :
        IF r.m.exc # "none" THEN Ret(r.m, <<>>) ELSE Ret(r.m, <<"int32">>))

\* ------------------------------------------------------------------------
\* map_call
\* ------------------------------------------------------------------------
none_if_empty(d) == IF d = <<>> THEN NoneT ELSE d[1]

\* the argument ids of a call in the order of the dict arg_id_to_dtype
ArgIds(e) == [i \in 1..Len(e.args) |-> i - 1] \o [j \in 1..Len(e.kw) |-> e.kw[j][1]]

Params(e) == e.args \o [j \in 1..Len(e.kw) |-> e.kw[j][2]]

\* the check without the exception for uint32/int32 and uint64/int64
check_without_widening(ids, old, new) ==
    IF \E i \in 1..Len(ids) :
           /\ ids[i] \in DOMAIN old
           /\ ~TEq(old[ids[i]], new[ids[i]])
           /\ ~CanCast(new[ids[i]], old[ids[i]])
    THEN "LoopyError" ELSE "ok"

\* a check that refuses to specialize a specialized callable at all
check_refusing_respecialization(ids, old, new) ==
    IF \E i \in 1..Len(ids) : ids[i] \in DOMAIN old
    THEN "LoopyError" ELSE "ok"

\* lines 441-468: the check that an already specialized callable is not
\* specialized again with other types; "ok" or the exception raised
RECURSIVE check_overwrite(_, _, _)
check_overwrite(ids, old, new) ==
    IF ids = <<>> THEN "ok"
    ELSE LET id == Head(ids) IN
         IF id \in DOMAIN old /\ ~TEq(old[id], new[id])
         THEN IF old[id] = NoneT THEN "AttributeError"
              ELSE IF old[id] = "uint32" /\ new[id] = NoneT THEN "AttributeError"
              ELSE IF old[id] = "uint32" /\ new[id] = "int32"
              THEN check_overwrite(Tail(ids), old, new)
              ELSE IF old[id] = "uint64" /\ new[id] = NoneT THEN "AttributeError"
              ELSE IF old[id] = "uint64" /\ new[id] = "int64"
              THEN check_overwrite(Tail(ids), old, new)
              ELSE IF new[id] = NoneT THEN "AttributeError"
              ELSE IF CanCast(new[id], old[id])
              THEN check_overwrite(Tail(ids), old, new)
              ELSE "LoopyError"
         ELSE check_overwrite(Tail(ids), old, new)

\* self.old_calls_to_new_calls[expr] = new_function_id
set_call(m, e, id) ==
    IF m.old_calls_to_new_calls.is_dict
    THEN [m EXCEPT !.old_calls_to_new_calls.map = (e :> id) @@ @]
    ELSE Raise(m, "TypeError", "str item assignment")

\* get_return_types_as_tuple
get_return_types_as_tuple(a2d) ==
    LET n == Cardinality({i \in DOMAIN a2d : i < 0}) IN [j \in 1..n |-> a2d[-j]]

\* lines 433-501: the function of the call is a ResolvedFunction
map_call_resolved(e, m, arg_id_to_dtype, k, return_tuple) ==
    IF e.name \notin DOMAIN m.callables_table
    THEN Ret(Raise(m, "KeyError", e.name), <<>>)
    ELSE
    LET in_knl_callable == m.callables_table[e.name] IN
    With(IF in_knl_callable.specialized
         THEN check_overwrite(ArgIds(e), in_knl_callable.a2d, arg_id_to_dtype)
         ELSE "ok", LAMBDA chk :
    IF chk # "ok" THEN Ret(Raise(m, chk, "overwrite"), <<>>)
    ELSE
    With(with_types(in_knl_callable, arg_id_to_dtype), LAMBDA new_callable :
    With(with_callable(m.callables_table, new_callable), LAMBDA wc :
    With(set_call([m EXCEPT !.callables_table = wc.table], e, wc.id), LAMBDA m1 :
    LET a2d == new_callable.a2d IN
    IF m1.exc # "none" THEN Ret(m1, <<>>)
    ELSE IF ~new_callable.specialized THEN Ret(m1, <<>>)
    ELSE IF -1 \in DOMAIN a2d /\ a2d[-1] # NoneT
    THEN IF return_tuple THEN Ret(m1, <<get_return_types_as_tuple(a2d)>>)
         ELSE Ret(m1, <<a2d[-1]>>)
    ELSE Ret(m1, <<>>)))))

\* lines 515-521: the result of the first mangler that matches, otherwise
\* what the last mangler returned
RECURSIVE mangle(_, _, _)
mangle(manglers, identifier, arg_dtypes) ==
    IF manglers = <<>> THEN NoMatch
    ELSE LET r == function_mangler(Head(manglers), identifier, arg_dtypes) IN
         IF r.matched THEN r ELSE mangle(Tail(manglers), identifier, arg_dtypes)

\* lines 516-518: the manglers are called with the identifier and arg_dtypes
consulted(m, manglers, identifier, arg_dtypes) ==
    IF manglers = <<>> THEN m
    ELSE [m EXCEPT !.mangler_calls = @ \cup {<<identifier, arg_dtypes>>}]

\* lines 503-566: the function of the call is a bare Variable
map_call_variable(e, m, k, env, return_tuple) ==
    With(rec_all(e.args, m, k, env), LAMBDA r0 :
    IF r0.m.exc # "none" THEN Ret(r0.m, <<>>)
    ELSE
    With([r0 EXCEPT !.m = consulted(r0.m, k.function_manglers, e.name,
                              [i \in 1..Len(r0.sets) |-> none_if_empty(r0.sets[i])])],
         LAMBDA r :
    With(mangle(k.function_manglers, e.name,
                [i \in 1..Len(r.sets) |-> none_if_empty(r.sets[i])]),
         LAMBDA mangle_result :
    IF ~mangle_result.matched THEN Ret(r.m, <<>>)
    ELSE IF \E i \in 1..Len(mangle_result.arg_dtypes) :
                mangle_result.arg_dtypes[i] = NoneT
    THEN Ret(Raise(r.m, "AttributeError", "with_target"), <<>>)
    ELSE
    LET na == Len(mangle_result.arg_dtypes)
        nr == Len(mangle_result.result_dtypes)
        a2d == [i \in (0..(na - 1)) \cup {-j : j \in 1..nr} |->
                   IF i >= 0 THEN mangle_result.arg_dtypes[i + 1]
                   ELSE mangle_result.result_dtypes[-i]]
        in_knl_callable == Callable(e.name, TRUE, a2d, nr, TRUE)
    IN
    With(with_added_callable(r.m.callables_table, in_knl_callable), LAMBDA wc :
    With([r.m EXCEPT !.callables_table = wc.table], LAMBDA m1 :
    With(IF e.op = "call" THEN set_call(m1, e, wc.id)
         ELSE [m1 EXCEPT !.old_calls_to_new_calls =
                             [is_dict |-> FALSE, map |-> NoCalls, str |-> wc.id]],
         LAMBDA m2 :
    IF m2.exc # "none" THEN Ret(m2, <<>>)
    ELSE IF return_tuple THEN Ret(m2, <<mangle_result.result_dtypes>>)
    ELSE IF nr # 1 THEN Ret(Raise(m2, "LoopyError", "arity"), <<>>)
    ELSE Ret(m2, <<mangle_result.result_dtypes[1]>>)))))))

map_call(e, m, k, env, return_tuple) ==
    With(rec_all(Params(e), m, k, env), LAMBDA r :
    IF r.m.exc # "none" THEN Ret(r.m, <<>>)
    ELSE
    LET ids == ArgIds(e)
        arg_id_to_dtype ==
            [id \in {ids[i] : i \in 1..Len(ids)} |->
                LET i == CHOOSE i \in 1..Len(ids) : ids[i] = id
                IN none_if_empty(r.sets[i])]
    IN IF IsResolved(e)
       THEN map_call_resolved(e, r.m, arg_id_to_dtype, k, return_tuple)
       ELSE map_call_variable(e, r.m, k, env, return_tuple))

\* ------------------------------------------------------------------------
\* map_reduction.  e.val is the arg_count of the operation when the
\* reduction is tuple-typed (more than one), e.args the inner expression or
\* the expressions of an inner tuple; the operation's result_dtypes returns
\* the types of its arguments.
\* ------------------------------------------------------------------------
is_tuple_typed(e) == e.val > 1

\* product(*rec_results): the one combination of the dtypes, or none
product(sets) ==
    IF \E i \in 1..Len(sets) : sets[i] = <<>> THEN <<>>
    ELSE <<[i \in 1..Len(sets) |-> sets[i][1]]>>

map_reduction(e, m, k, env, return_tuple) ==
    IF ~return_tuple /\ is_tuple_typed(e)
    THEN Ret(Raise(m, "LoopyError", "arity"), <<>>)
    ELSE
    LET inner == e.args[1] IN
    IF Len(e.args) > 1
    THEN With(rec_all(e.args, m, k, env), LAMBDA r :
             IF r.m.exc # "none" THEN Ret(r.m, <<>>)
             ELSE Ret(r.m, product(r.sets)))
    ELSE IF inner.op = "reduction" THEN map_reduction(inner, m, k, env, return_tuple)
    ELSE IF inner.op = "call" THEN map_call(inner, m, k, env, return_tuple)
    ELSE IF return_tuple
    THEN Ret(Raise(m, "LoopyError", "unknown reduction type"), <<>>)
    ELSE rec(inner, m, k, env)

rec(e, m, k, env) ==
    IF m.exc # "none" THEN Ret(m, <<>>)
    ELSE CASE e.op = "const" -> map_constant(e, m)
           [] e.op \in {"sum", "product"} -> map_sum(e, m, k, env)
           [] e.op = "quotient" -> map_quotient(e, m, k, env)
           [] e.op = "type_cast" -> map_type_cast(e, m, k, env)
           [] e.op = "subscript" -> map_subscript(e, m, k, env)
           [] e.op = "var" -> map_variable(e, m, k, env)
           [] e.op = "lookup" -> map_lookup(e, m, k, env)
           [] e.op = "comparison" -> map_comparison(e, m, k, env)
           [] e.op = "logical_not" -> map_logical_not(e, m, k, env)
           [] e.op \in {"logical_and", "logical_or"} -> map_logical_and(e, m, k, env)
           [] e.op \in {"call", "call_with_kwargs"} -> map_call(e, m, k, env, FALSE)
           [] e.op = "reduction" -> map_reduction(e, m, k, env, FALSE)

\* TypeInferenceMapper.__call__ with return_dtype_set=True
call_dtype_set(e, m, k, env, return_tuple) ==
    IF ~return_tuple THEN rec(e, m, k, env)
    ELSE IF IsCall(e) THEN map_call(e, m, k, env, TRUE)
    ELSE IF e.op = "reduction" THEN map_reduction(e, m, k, env, TRUE)
    ELSE Ret(Raise(m, "TypeError", "return_tuple"), <<>>)

\* ------------------------------------------------------------------------
\* infer_arg_and_reduction_dtypes_for_reduction_expression (lines 1079-1113).
\* Returns exc/msg ("none": it returned), arg_dtypes, reduction_dtypes and
\* the callables table of its mapper.
\* ------------------------------------------------------------------------
Auto == "auto"

FailedToDetermine == "failed to determine type(s) of accumulator(s)"

ReductionResult(exc, msg, arg_dtypes, reduction_dtypes, table) ==
    [exc |-> exc, msg |-> msg, arg_dtypes |-> arg_dtypes,
     reduction_dtypes |-> reduction_dtypes, callables_table |-> table]

\* lines 1091-1095 and 1100-1104 without the policy: the error in both cases
undetermined_always_raises(n, m, unknown_types_ok) ==
    ReductionResult("LoopyError", FailedToDetermine, <<>>, <<>>, m.callables_table)

\* lines 1091-1095 and 1100-1104: the types are not known
undetermined(n, m, unknown_types_ok) ==
    IF unknown_types_ok
    THEN ReductionResult("none", "", [i \in 1..n |-> Auto], [i \in 1..n |-> Auto],
                         m.callables_table)
    ELSE ReductionResult("LoopyError", FailedToDetermine, <<>>, <<>>,
                         m.callables_table)

infer_arg_and_reduction_dtypes_for_reduction_expression(k, e, table, env, ok) ==
    IF is_tuple_typed(e)
    THEN With(call_dtype_set(e, TypeInferenceMapper(table), k, env, TRUE),
              LAMBDA r :
             IF Failed(r)
             THEN ReductionResult(r.m.exc, r.m.msg, <<>>, <<>>, r.m.callables_table)
             ELSE IF Len(r.res) = 1
             THEN ReductionResult("none", "", r.res[1], r.res[1], r.m.callables_table)
             ELSE undetermined(e.val, r.m, ok))
    ELSE With(call_single(e, TypeInferenceMapper(table), k, env),
              LAMBDA r :
             IF r.m.exc = "DependencyTypeInferenceFailure"
             THEN undetermined(1, r.m, ok)
             ELSE IF Failed(r)
             THEN ReductionResult(r.m.exc, r.m.msg, <<>>, <<>>, r.m.callables_table)
             ELSE ReductionResult("none", "", r.res, r.res, r.m.callables_table))

\* ------------------------------------------------------------------------
\* Kernels.  A kernel is the record
\*   temps, args         the names of the temporaries / arguments, in order
\*   insns               the instructions: kind, assignees, expression
\*   substitutions       rule name -> body (rules take no parameters; a use
\*                       of rule r is the node Subst(r))
\*   inames, all_params, index_dtype, function_manglers
\* The dtypes of its variables live in the two dicts temporary_variables and
\* arg_dict, which are objects of their own (see Dict below).
\* ------------------------------------------------------------------------
Subst(r) == Node("subst", r, 0, NoneT, <<>>, <<>>)
SubArrayRef(sub) == Node("sub_array_ref", "", 0, NoneT, <<sub>>, <<>>)

Insn(kind, assignees, expression) ==
    [kind |-> kind, assignees |-> assignees, expression |-> expression]

Assignment(lhs, rhs) == Insn("Assignment", <<lhs>>, rhs)
CallInstruction(lhss, rhs) == Insn("CallInstruction", lhss, rhs)

MultiAssignmentBase == {"Assignment", "CallInstruction"}

\* the variable an assignee expression writes
assignee_var_name(a) ==
    IF a.op = "var" THEN a.name
    ELSE IF a.op \in {"subscript", "lookup"} THEN a.args[1].name
    ELSE a.args[1].args[1].name

assignee_var_names(insn) ==
    [i \in 1..Len(insn.assignees) |-> assignee_var_name(insn.assignees[i])]

SeqRange(s) == {s[i] : i \in 1..Len(s)}

\* the names of the variables an expression reads
RECURSIVE VarsOf(_)
RECURSIVE VarsOfAll(_)
VarsOfAll(es) == IF es = <<>> THEN {} ELSE VarsOf(Head(es)) \cup VarsOfAll(Tail(es))
VarsOf(e) ==
    IF e.op = "var" THEN {e.name}
    ELSE VarsOfAll(e.args) \cup VarsOfAll([j \in 1..Len(e.kw) |-> e.kw[j][2]])

read_dependency_names(insn) == VarsOf(insn.expression)

\* SubstitutionRuleExpander: every use of a rule replaced by its body
RECURSIVE Expand(_, _)
Expand(e, rules) ==
    IF e.op = "subst" /\ e.name \in DOMAIN rules THEN Expand(rules[e.name], rules)
    ELSE [e EXCEPT !.args = [i \in 1..Len(e.args) |-> Expand(e.args[i], rules)],
                   !.kw = [j \in 1..Len(e.kw) |->
                              <<e.kw[j][1], Expand(e.kw[j][2], rules)>>]]

\* loopy.transform.subst.expand_subst
expand_subst(kernel) ==
    [kernel EXCEPT !.insns =
        [i \in 1..Len(kernel.insns) |->
            [kernel.insns[i] EXCEPT !.expression =
                                        Expand(@, kernel.substitutions)]]]

\* kernel.writer_map()[var_name]: the instructions that write var_name
writer_insns(kernel, var_name) ==
    SelectSeq(kernel.insns, LAMBDA insn : var_name \in SeqRange(assignee_var_names(insn)))

\* ------------------------------------------------------------------------
\* A dict object: its items, and whether it is the very object the caller's
\* kernel holds (alias) or an object of its own.
\* ------------------------------------------------------------------------
Dict(items, alias) == [items |-> items, alias |-> alias]

\* the dict itself, not a copy of it
dict_alias(items) == Dict(items, TRUE)

\* dict.copy()
dict_copy(items) == Dict(items, FALSE)

\* ------------------------------------------------------------------------
\* _infer_var_type (lines 703-766).  Returns
\*   exc, msg       the exception it raised ("none": it returned)
\*   result_none    the first component is None
\*   result         the list of dtypes otherwise
\*   symbols        symbols_with_unknown_types of the copied mapper
\*   calls_none, calls   old_calls_to_new_calls of the copied mapper, or None
\*   table          callables_table of the copied mapper
\* ------------------------------------------------------------------------
InferResult(exc, msg, result_none, result, symbols, calls_none, calls, table) ==
    [exc |-> exc, msg |-> msg, result_none |-> result_none, result |-> result,
     symbols |-> symbols, calls_none |-> calls_none, calls |-> calls,
     table |-> table]

\* lines 738-751: the dtype of var_name among the results of a call instruction
RECURSIVE pick_results(_, _, _)
pick_results(names, return_dtype_set, var_name) ==
    IF return_dtype_set = <<>> THEN [ok |-> TRUE, result |-> <<>>]
    ELSE LET comp == Head(return_dtype_set)
             n == IF Len(names) < Len(comp) THEN Len(names) ELSE Len(comp)
             hits == {j \in 1..n : names[j] = var_name}
         IN IF hits = {} THEN [ok |-> FALSE, result |-> <<>>]
            ELSE LET j == CHOOSE j \in hits : \A h \in hits : j <= h
                     t == pick_results(names, Tail(return_dtype_set), var_name)
                 IN [ok |-> t.ok, result |-> <<comp[j]>> \o t.result]

\* the loop over the writers of var_name: [m, dtype_sets]
RECURSIVE writers_loop(_, _, _, _, _, _)
writers_loop(insns, var_name, m, dtype_sets, k, env) ==
    IF insns = <<>> \/ m.exc # "none" THEN [m |-> m, dtype_sets |-> dtype_sets]
    ELSE
    LET writer_insn == Head(insns)
        single == Len(writer_insn.assignees) = 1
    IN
    IF writer_insn.kind \notin MultiAssignmentBase
    THEN writers_loop(Tail(insns), var_name, m, dtype_sets, k, env)
    ELSE
    With(call_dtype_set(writer_insn.expression, m, k, env,
                        writer_insn.kind # "Assignment" /\ ~single),
         LAMBDA r :
    IF writer_insn.kind = "Assignment"
    THEN writers_loop(Tail(insns), var_name, r.m,
                      Append(dtype_sets, r.res), k, env)
    ELSE LET return_dtype_set == IF single THEN <<r.res>> ELSE r.res
             p == pick_results(assignee_var_names(writer_insn),
                               return_dtype_set, var_name)
         IN IF Failed(r) THEN [m |-> r.m, dtype_sets |-> dtype_sets]
            ELSE IF ~p.ok
            THEN [m |-> Raise(r.m, "AssertionError", "found"),
                  dtype_sets |-> dtype_sets]
            ELSE writers_loop(Tail(insns), var_name, r.m,
                              Append(dtype_sets, p.result), k, env))

infer_var_type(k, var_name, type_inf_mapper, env) ==
    IF var_name \in k.all_params
    THEN InferResult("none", "", FALSE, <<k.index_dtype>>, {}, FALSE, NewCalls,
                     type_inf_mapper.callables_table)
    ELSE
    With(writers_loop(writer_insns(k, var_name), var_name,
                      copy(type_inf_mapper, type_inf_mapper.callables_table),
                      <<>>, k, env),
         LAMBDA w :
    IF w.m.exc # "none"
    THEN InferResult(w.m.exc, w.m.msg, TRUE, <<>>, {}, TRUE, NewCalls,
                     w.m.callables_table)
    ELSE IF w.dtype_sets = <<>>
    THEN InferResult("none", "", TRUE, <<>>, w.m.symbols_with_unknown_types,
                     TRUE, NewCalls, w.m.callables_table)
    ELSE
    With(combine(w.dtype_sets), LAMBDA c :
    IF c.exc # "none"
    THEN InferResult(c.exc, "combine", TRUE, <<>>, {}, TRUE, NewCalls,
                     w.m.callables_table)
    ELSE InferResult("none", "", FALSE, c.res, w.m.symbols_with_unknown_types,
                     FALSE, w.m.old_calls_to_new_calls, w.m.callables_table)))

\* ------------------------------------------------------------------------
\* The dependency graph and its SCCs (lines 813-850).
\* ------------------------------------------------------------------------
\* names_for_type_inference: temporaries, then arguments, with dtype None
names_for_type_inference(kernel, temporary_variables, arg_dict) ==
    SelectSeq(kernel.temps, LAMBDA n : temporary_variables[n] = NoneT)
    \o SelectSeq(kernel.args, LAMBDA n : arg_dict[n] = NoneT)

dep_graph(kernel, names) ==
    [written_var \in SeqRange(names) |->
        {read_var \in SeqRange(names) :
            \E i \in 1..Len(kernel.insns) :
                /\ written_var \in SeqRange(assignee_var_names(kernel.insns[i]))
                /\ read_var \in read_dependency_names(kernel.insns[i])}]

RECURSIVE Closure(_, _)
Closure(R, n) ==
    IF n = 0 THEN R
    ELSE Closure(R \cup {<<z[1][1], z[2][2]>> : z \in {w \in R \X R : w[1][2] = w[2][1]}},
                 n - 1)

\* the SCCs not yet emitted whose dependencies are all emitted, earliest first
RECURSIVE emit_sccs(_, _, _, _)
emit_sccs(graph, remaining, emitted, order) ==
    IF remaining = {} THEN <<>>
    ELSE LET ready == {S \in remaining :
                          \A a \in S : graph[a] \subseteq (S \cup emitted)}
             first(S) == CHOOSE i \in 1..Len(order) :
                             order[i] \in S /\ \A j \in 1..(i-1) : order[j] \notin S
             S == CHOOSE S \in ready : \A T \in ready : first(S) <= first(T)
         IN <<SelectSeq(order, LAMBDA a : a \in S)>>
            \o emit_sccs(graph, remaining \ {S}, emitted \cup S, order)

\* loopy.tools.compute_sccs: the SCCs of the graph in topological order,
\* dependencies first.  order is the order in which the sets and dict keys
\* happen to be enumerated: it fixes the order of independent SCCs and of
\* the members of an SCC.
compute_sccs(graph, order) ==
    LET N == DOMAIN graph
        E == {<<a, a>> : a \in N} \cup {p \in N \X N : p[2] \in graph[p[1]]}
        R == Closure(E, Cardinality(N))
        scc(a) == {b \in N : <<a, b>> \in R /\ <<b, a>> \in R}
    IN emit_sccs(graph, {scc(a) : a \in N}, {}, order)

\* ------------------------------------------------------------------------
\* The driver, infer_unknown_types_for_a_single_kernel.  Its frame is the
\* record d:
\*   pc        "for" (line 868), "while" (line 873), "forcing" (line 1001),
\*             "finish" (line 1016), "done"
\*   temporary_variables, arg_dict   the dicts of the caller's kernel
\*   new_temp_vars, new_arg_dict     the dicts of lines 810-811
\*   sccs, scc_idx, var_chain, queue, failed_names,
\*   changed_during_last_queue_run, type_inf_mapper, callables_table,
\*   old_calls_to_new_calls          the locals of those names
\*   symbols_bound, symbols_with_unavailable_types
\*             whether the local is bound yet, and its value
\*   gave_up   the names the give-up rule was applied to
\*   renamings_produced  the renamings returned by those evaluations,
\*             whether line 900 found them failed or not
\*   forced    the instructions (by position) whose expression the pass
\*             of lines 1001-1014 evaluated
\*   evaluations  the evaluations of lines 890-896 so far, in order: the
\*             name and whether line 900 found it failed
\*   outcome   status "running" / "returned" / "raised", the exception, the
\*             place it was raised at, and for the error of line 931 the
\*             name and the symbols of its advice
\*   dep_graph the local of that name
\*   result    the returned kernel: dtypes and instructions
\* ------------------------------------------------------------------------
Outcome(status, exc, msg, site, name, advice) ==
    [status |-> status, exc |-> exc, msg |-> msg, site |-> site,
     name |-> name, advice |-> advice]

Running == Outcome("running", "none", "", "", "", {})

Raised(exc, msg, site) == Outcome("raised", exc, msg, site, "", {})

Returned == Outcome("returned", "none", "", "", "", {})

CouldNotDetermine == "could not determine type"

NoResult == [dtype |-> EmptyMap, insns |-> <<>>]

\* item_lookup: new_temp_vars, then new_arg_dict
item_lookup(d) == d.new_temp_vars.items @@ d.new_arg_dict.items

\* lines 805-866
driver_start(kernel, temporary_variables, arg_dict, callables_table, order) ==
    LET names == names_for_type_inference(kernel, temporary_variables, arg_dict)
        k == IF DOMAIN kernel.substitutions # {} THEN expand_subst(kernel) ELSE kernel
    IN
    With(dep_graph(k, names), LAMBDA graph :
       [pc |-> "for",
        temporary_variables |-> temporary_variables,
        arg_dict |-> arg_dict,
        new_temp_vars |-> dict_copy(temporary_variables),
        new_arg_dict |-> dict_copy(arg_dict),
        dep_graph |-> graph,
        sccs |-> compute_sccs(graph,
                              SelectSeq(order, LAMBDA n : n \in SeqRange(names))),
        scc_idx |-> 0,
        var_chain |-> <<>>,
        queue |-> <<>>,
        failed_names |-> {},
        changed_during_last_queue_run |-> FALSE,
        type_inf_mapper |-> TypeInferenceMapper(callables_table),
        callables_table |-> callables_table,
        old_calls_to_new_calls |-> NoCalls,
        symbols_bound |-> FALSE,
        symbols_with_unavailable_types |-> {},
        gave_up |-> {},
        evaluations |-> <<>>,
        forced |-> {},
        renamings_produced |-> NoCalls,
        outcome |-> Running,
        result |-> NoResult])

raise(d, exc, msg, site) ==
    [d EXCEPT !.pc = "done", !.outcome = Raised(exc, msg, site)]

\* line 868: the next SCC, or on to the forcing pass
for_next_scc(d) ==
    IF d.scc_idx < Len(d.sccs)
    THEN [d EXCEPT !.pc = "while",
                   !.scc_idx = @ + 1,
                   !.var_chain = d.sccs[d.scc_idx + 1],
                   !.queue = d.sccs[d.scc_idx + 1],
                   !.failed_names = {},
                   !.changed_during_last_queue_run = FALSE]
    ELSE [d EXCEPT !.pc = "forcing"]

\* new_temp_vars[name] = item.copy(dtype=new_dtype) / new_arg_dict[name] = ..
set_item(d, name, new_dtype) ==
    IF name \in DOMAIN d.new_temp_vars.items
    THEN [d EXCEPT !.new_temp_vars.items[name] = new_dtype,
                   !.temporary_variables =
                       IF d.new_temp_vars.alias
                       THEN [@ EXCEPT ![name] = new_dtype] ELSE @]
    ELSE [d EXCEPT !.new_arg_dict.items[name] = new_dtype,
                   !.arg_dict =
                       IF d.new_arg_dict.alias
                       THEN [@ EXCEPT ![name] = new_dtype] ELSE @]

\* an except clause that takes every type inference failure
caught_any_inference_failure(exc) ==
    exc \in {"DependencyTypeInferenceFailure", "TypeInferenceFailure"}

\* line 895: the exceptions the except clause of the driver catches
caught_by_driver(exc) == exc = "DependencyTypeInferenceFailure"

\* a driver that does not remember the failure
forget_failed(failed_names, name) == failed_names

\* line 940: failed_names.add(item.name)
remember_failed(failed_names, name) == failed_names \cup {name}

\* a driver whose failure markers outlive the progress of another name
keep_failure_markers(failed_names) == failed_names

\* lines 950-952: progress resets the failure markers
reset_failure_markers(failed_names) == {}

\* lines 886-952: one pass of the body of the while loop
iterate_body(d, k, expect_completion) ==
    LET name == Head(d.queue)
        queue == Tail(d.queue)
        item_dtype == item_lookup(d)[name]
    IN
    With(infer_var_type(k, name, d.type_inf_mapper, item_lookup(d)), LAMBDA r :
    IF r.exc # "none" /\ ~caught_by_driver(r.exc)
    THEN raise([d EXCEPT !.queue = queue], r.exc, r.msg, "infer")
    ELSE
    LET caught == r.exc # "none"
        callables_table == IF caught THEN d.callables_table ELSE r.table
        failed == caught \/ r.result_none \/ r.result = <<>>
    IN
    With([d EXCEPT !.queue = queue,
                   !.callables_table = callables_table,
                   !.symbols_bound = IF caught THEN @ ELSE TRUE,
                   !.symbols_with_unavailable_types =
                       IF caught THEN @ ELSE r.symbols,
                   !.evaluations = Append(@, [name |-> name, failed |-> failed]),
                   !.renamings_produced =
                       IF caught \/ ~r.calls.is_dict THEN @ ELSE r.calls.map @@ @,
                   !.type_inf_mapper = copy(@, callables_table)],
         LAMBDA d1 :
    IF ~failed
    THEN LET new_dtype == r.result[1] IN
         With(IF ~TEq(new_dtype, item_dtype)
              THEN [set_item(d1, name, new_dtype) EXCEPT
                       !.changed_during_last_queue_run = TRUE]
              ELSE d1,
              LAMBDA d2 :
         IF ~r.calls.is_dict
         THEN raise(d2, "ValueError", "dict update", "update")
         ELSE [d2 EXCEPT !.old_calls_to_new_calls = r.calls.map @@ @,
                         !.failed_names = reset_failure_markers(@)])
    ELSE IF name \in d1.failed_names
    THEN With([d1 EXCEPT !.gave_up = @ \cup {name}], LAMBDA d2 :
         IF ~d2.symbols_bound
         THEN raise(d2, "UnboundLocalError", "symbols_with_unavailable_types",
                    "give_up")
         ELSE IF expect_completion
         THEN [d2 EXCEPT !.pc = "done",
                         !.outcome = Outcome("raised", "LoopyError",
                                         CouldNotDetermine, "give_up", name,
                                         d2.symbols_with_unavailable_types)]
         ELSE [d2 EXCEPT !.pc = "for"])
    ELSE LET failed_names == remember_failed(d1.failed_names, name) IN
         IF SeqRange(queue) = failed_names
         THEN IF expect_completion
              THEN raise(d1, "AssertionError", "not expect_completion", "give_up")
              ELSE [d1 EXCEPT !.pc = "for", !.failed_names = failed_names]
         ELSE [d1 EXCEPT !.failed_names = failed_names,
                         !.queue = Append(queue, name)]))

\* line 873: the test of the while loop
loop_continues(d) == d.queue # <<>> \/ d.changed_during_last_queue_run

\* lines 873-952: one iteration of the while loop
iterate(d, k, expect_completion) ==
    IF d.queue = <<>> /\ d.changed_during_last_queue_run
       /\ Len(d.var_chain) = 1 /\ d.var_chain[1] \notin d.dep_graph[d.var_chain[1]]
    THEN [d EXCEPT !.pc = "for", !.changed_during_last_queue_run = FALSE]
    ELSE iterate_body(IF d.queue = <<>> /\ d.changed_during_last_queue_run
                      THEN [d EXCEPT !.changed_during_last_queue_run = FALSE,
                                     !.queue = d.var_chain]
                      ELSE d,
                      k, expect_completion)

\* lines 961-997
RECURSIVE assignees_typed(_, _)
assignees_typed(assignees, d) ==
    IF assignees = <<>> THEN TRUE
    ELSE LET a0 == Head(assignees)
             assignee == IF a0.op = "lookup" THEN a0.args[1] ELSE a0
             dtype_of(n) == IF n \in DOMAIN d.arg_dict THEN d.arg_dict[n]
                            ELSE d.temporary_variables[n]
         IN IF assignee.op = "var"
            THEN IF dtype_of(assignee.name) = NoneT THEN FALSE
                 ELSE assignees_typed(Tail(assignees), d)
            ELSE IF assignee.op = "subscript"
            THEN IF dtype_of(assignee.args[1].name) = NoneT THEN FALSE
                 ELSE assignees_typed(Tail(assignees), d)
            ELSE LET n == assignee.args[1].args[1].name IN
                 IF n \in DOMAIN d.arg_dict /\ d.arg_dict[n] = NoneT THEN FALSE
                 ELSE assignees_typed(Tail(assignees), d)

instruction_missed_during_inference(insn, d) == assignees_typed(insn.assignees, d)

\* lines 1001-1014: the mapper after the pass over the instructions
RECURSIVE forcing_loop(_, _, _, _)
forcing_loop(insns, m, d, k) ==
    IF insns = <<>> \/ m.exc # "none" THEN m
    ELSE LET insn == Head(insns) IN
         IF insn.kind \in MultiAssignmentBase
         THEN IF instruction_missed_during_inference(insn, d)
              THEN forcing_loop(Tail(insns),
                                call_dtype_set(insn.expression, m, k, item_lookup(d),
                                               Len(insn.assignees) > 1).m,
                                d, k)
              ELSE forcing_loop(Tail(insns), m, d, k)
         ELSE IF insn.kind \in {"NoOp", "CInstruction"}
         THEN forcing_loop(Tail(insns), m, d, k)
         ELSE Raise(m, "NotImplementedError", "Unknown instructions type")

\* lines 1001-1017
forcing_pass(d, k) ==
    With(forcing_loop(k.insns, d.type_inf_mapper, d, k), LAMBDA m :
    IF m.exc # "none" THEN raise(d, m.exc, m.msg, "forcing")
    ELSE IF ~m.old_calls_to_new_calls.is_dict
    THEN raise([d EXCEPT !.type_inf_mapper = m, !.callables_table = m.callables_table],
               "ValueError", "dict update", "update")
    ELSE [d EXCEPT !.pc = "finish",
                   !.forced = {i \in 1..Len(k.insns) :
                                  /\ k.insns[i].kind \in MultiAssignmentBase
                                  /\ instruction_missed_during_inference(k.insns[i], d)},
                   !.type_inf_mapper = m,
                   !.callables_table = m.callables_table,
                   !.old_calls_to_new_calls = m.old_calls_to_new_calls.map @@ @])

\* ------------------------------------------------------------------------
\* FunctionNameChanger (lines 70-119) and change_names_of_pymbolic_calls.
\* rules are the kernel's substitution rules (old_subst_rules).
\* ------------------------------------------------------------------------
RECURSIVE name_changer(_, _, _)

\* the identity mapper: the node rebuilt from its rewritten children
identity_map(e, calls_to_new_names, rules) ==
    [e EXCEPT !.args = [i \in 1..Len(e.args) |->
                           name_changer(e.args[i], calls_to_new_names, rules)],
              !.kw = [j \in 1..Len(e.kw) |->
                         <<e.kw[j][1],
                           name_changer(e.kw[j][2], calls_to_new_names, rules)>>]]

\* FunctionNameChanger.map_call
changer_map_call(e, calls_to_new_names, rules) ==
    IF e.name \notin DOMAIN rules
    THEN LET expanded_expr == Expand(e, rules) IN
         IF e \in DOMAIN calls_to_new_names
         THEN RCall(calls_to_new_names[e],
                    [i \in 1..Len(e.args) |->
                        name_changer(e.args[i], calls_to_new_names, rules)])
         ELSE IF expanded_expr \in DOMAIN calls_to_new_names
         THEN RCall(calls_to_new_names[expanded_expr],
                    [i \in 1..Len(expanded_expr.args) |->
                        name_changer(expanded_expr.args[i], calls_to_new_names, rules)])
         ELSE identity_map(e, calls_to_new_names, rules)
    ELSE e

\* FunctionNameChanger.map_call_with_kwargs
changer_map_call_with_kwargs(e, calls_to_new_names, rules) ==
    IF e \in DOMAIN calls_to_new_names
    THEN LET r == identity_map(e, calls_to_new_names, rules)
         IN RCallKw(calls_to_new_names[e], r.args, r.kw)
    ELSE identity_map(e, calls_to_new_names, rules)

name_changer(e, calls_to_new_names, rules) ==
    IF e.op = "call" THEN changer_map_call(e, calls_to_new_names, rules)
    ELSE IF e.op = "call_with_kwargs"
    THEN changer_map_call_with_kwargs(e, calls_to_new_names, rules)
    ELSE IF e.op = "subst" THEN e
    ELSE identity_map(e, calls_to_new_names, rules)

change_names_of_pymbolic_calls(insns, pymbolic_calls_to_new_names, rules) ==
    [i \in 1..Len(insns) |->
        [insns[i] EXCEPT !.expression =
                             name_changer(@, pymbolic_calls_to_new_names, rules)]]

\* the call nodes of an expression
RECURSIVE CallsOf(_)
RECURSIVE CallsOfAll(_)
CallsOfAll(es) == IF es = <<>> THEN {} ELSE CallsOf(Head(es)) \cup CallsOfAll(Tail(es))
CallsOf(e) ==
    (IF IsCall(e) THEN {e} ELSE {})
    \cup CallsOfAll(e.args) \cup CallsOfAll([j \in 1..Len(e.kw) |-> e.kw[j][2]])

\* loopy.check.check_functions_are_resolved: no call to a bare name is left
functions_are_resolved(insns) ==
    \A i \in 1..Len(insns) : \A c \in CallsOf(insns[i].expression) : IsResolved(c)

\* lines 1023-1040
finish(d, unexpanded_kernel, expect_completion) ==
    With(change_names_of_pymbolic_calls(unexpanded_kernel.insns,
             d.old_calls_to_new_calls, unexpanded_kernel.substitutions),
         LAMBDA insns :
    LET d1 == [d EXCEPT !.result = [dtype |-> item_lookup(d), insns |-> insns]]
    IN IF expect_completion /\ ~functions_are_resolved(insns)
       THEN raise(d1, "LoopyError", "Unknown function", "check")
       ELSE [d1 EXCEPT !.pc = "done", !.outcome = Returned])

\* one step of the driver
step(d, kernel, expect_completion) ==
    With(IF DOMAIN kernel.substitutions # {} THEN expand_subst(kernel) ELSE kernel,
         LAMBDA k :
             CASE d.pc = "for" -> for_next_scc(d)
               [] d.pc = "while" /\ ~loop_continues(d) -> [d EXCEPT !.pc = "for"]
               [] d.pc = "while" /\ loop_continues(d) -> iterate(d, k, expect_completion)
               [] d.pc = "forcing" -> forcing_pass(d, k)
               [] d.pc = "finish" -> finish(d, kernel, expect_completion)
               [] d.pc = "done" -> d)

MaxSteps == 40

\* the frame the call ends with
RECURSIVE run(_, _, _, _)
run(d, kernel, expect_completion, fuel) ==
    IF d.pc = "done" \/ fuel = 0 THEN d
    ELSE run(step(d, kernel, expect_completion), kernel, expect_completion, fuel - 1)

\* ------------------------------------------------------------------------
\* The kernels inference is called on: a temporary x and an argument y, and
\* up to MaxInsns instructions drawn from one of two pools.
\* ------------------------------------------------------------------------
X == Var("x")
Y == Var("y")
One == IntLit(1)
F32 == NumLit("float32")

\* arithmetic, comparisons and constants
ArithPool ==
    { Assignment(X, One),
      Assignment(X, Quotient(Y, Y)),
      Assignment(Y, Product(<<X, F32>>)),
      Assignment(X, Comparison(X, One)),
      Assignment(Subscript(Y, Var("i")), Comparison(X, One)),
      Assignment(X, NumLit(NoneT)),
      Assignment(Y, Sum(<<X, One>>)),
      Assignment(Y, Comparison(Y, X)),
      Assignment(X, Y),
      Assignment(Y, X),
      Assignment(Y, F32) }

\* the rule s := y + 1
Rules == [s |-> Sum(<<Y, One>>)]

\* calls: to the generic f, to the specialization f_0 that is in the table
\* already, to the mangled h, and through the substitution rule s
CallPool ==
    { Assignment(X, RCall("f", <<Y>>)),
      Assignment(Y, RCall("f", <<RCall("f", <<X>>)>>)),
      Assignment(X, RCall("f_0", <<Y>>)),
      Assignment(X, VCall("h", <<Y>>)),
      Assignment(X, RCall("f", <<Subst("s")>>)),
      Assignment(X, RCallKw("f", <<Subst("s")>>, <<<<KwId, Y>>>>)),
      Assignment(X, RCallKw("f", <<Y>>, <<<<KwId, One>>>>)),
      Assignment(Y, Reduction(RCall("f", <<X>>))),
      CallInstruction(<<X>>, RCall("f", <<Y>>)) }

MaxInsns == 2

RECURSIVE SeqsUpTo(_, _)
SeqsUpTo(S, n) ==
    IF n = 0 THEN {<<>>}
    ELSE LET shorter == SeqsUpTo(S, n - 1)
         IN shorter \cup {Append(q, e) : q \in shorter, e \in S}

Kernel(insns, substitutions) ==
    [temps |-> <<"x">>, args |-> <<"y">>, insns |-> insns,
     substitutions |-> substitutions,
     inames |-> {"i"}, all_params |-> {}, index_dtype |-> "int32",
     function_manglers |-> <<Mangler("h", 1, FALSE), Mangler("n", 1, TRUE),
                             Mangler("h2", 2, FALSE)>>]

Kernels ==
    {Kernel(q, EmptyMap) : q \in SeqsUpTo(ArithPool, MaxInsns)}
    \cup {Kernel(q, Rules) : q \in SeqsUpTo(CallPool, MaxInsns) \ {<<>>}}

InitialDtypes == {NoneT, "int32", "float32", "opaque"}

\* the caller's callables table: the generic f and a specialization of it
ProgramTable ==
    ("f" :> GenericCallable("f", 1))
    @@ ("f_0" :> with_types(GenericCallable("f", 1), (0 :> "uint32")))

Orders == {<<"x", "y">>, <<"y", "x">>}

\* ------------------------------------------------------------------------
\* State.
\*   kernel, callables_table   the caller's kernel and table as they were
\*                             when inference was called; the kernel record
\*                             carries the items of its two dicts then
\*   expect_completion         the argument of that name
\*   order                     the enumeration order compute_sccs meets
\*   d                         the frame of the driver
\*   ev                        an evaluation of the mapper on its own
\*   program                   the frame of infer_unknown_types
\* ------------------------------------------------------------------------
VARIABLES kernel, callables_table, expect_completion, order, d, ev, program

vars == <<kernel, callables_table, expect_completion, order, d, ev, program>>

NotCalled ==
    [driver_start(Kernel(<<>>, EmptyMap), ("x" :> "int32"), ("y" :> "int32"),
                  ProgramTable, <<"x", "y">>) EXCEPT !.pc = "start"]

NoEval == [phase |-> "off"]

NoProgram == [pc |-> "off"]

Init ==
    /\ \E q \in Kernels, tx \in InitialDtypes, ty \in InitialDtypes :
           kernel = q @@
                    [temporary_variables |-> ("x" :> tx), arg_dict |-> ("y" :> ty)]
    /\ callables_table = ProgramTable
    /\ expect_completion \in BOOLEAN
    /\ order \in Orders
    /\ (order # <<"x", "y">> =>
            kernel.temporary_variables["x"] = NoneT /\ kernel.arg_dict["y"] = NoneT)
    /\ d = NotCalled
    /\ ev = NoEval
    /\ program = NoProgram

\* the call: lines 805-866
Enter ==
    /\ d.pc = "start"
    /\ d' = driver_start(kernel, kernel.temporary_variables, kernel.arg_dict,
                         callables_table, order)
    /\ UNCHANGED <<kernel, callables_table, expect_completion, order, ev, program>>

\* line 868
ForNextScc ==
    /\ d.pc = "for"
    /\ d' = step(d, kernel, expect_completion)
    /\ UNCHANGED <<kernel, callables_table, expect_completion, order, ev, program>>

\* line 873, the test fails
LoopExit ==
    /\ d.pc = "while" /\ ~loop_continues(d)
    /\ d' = step(d, kernel, expect_completion)
    /\ UNCHANGED <<kernel, callables_table, expect_completion, order, ev, program>>

\* lines 873-952
Iterate ==
    /\ d.pc = "while" /\ loop_continues(d)
    /\ d' = step(d, kernel, expect_completion)
    /\ UNCHANGED <<kernel, callables_table, expect_completion, order, ev, program>>

\* lines 1001-1017
ForcingPass ==
    /\ d.pc = "forcing"
    /\ d' = step(d, kernel, expect_completion)
    /\ UNCHANGED <<kernel, callables_table, expect_completion, order, ev, program>>

\* lines 1023-1040
Finish ==
    /\ d.pc = "finish"
    /\ d' = step(d, kernel, expect_completion)
    /\ UNCHANGED <<kernel, callables_table, expect_completion, order, ev, program>>

Next == Enter \/ ForNextScc \/ LoopExit \/ Iterate \/ ForcingPass \/ Finish

Spec == Init /\ [][Next]_vars

\* ------------------------------------------------------------------------
\* The mapper on its own: one call to a callable that is specialized for the
\* type old_dtype already, with an argument of type new_dtype.
\* ------------------------------------------------------------------------
A == Var("a")

\* the specialization g_0 of the generic g for one argument of type t
SpecializedTable(t) ==
    ("g" :> GenericCallable("g", 1))
    @@ ("g_0" :> with_types(GenericCallable("g", 1), (0 :> t)))

EvalKernel == Kernel(<<>>, EmptyMap)

Evaluation(old_dtype, new_dtype, return_tuple) ==
    [phase |-> "ready",
     old_dtype |-> old_dtype,
     new_dtype |-> new_dtype,
     expr |-> RCall("g_0", <<A>>),
     env |-> ("a" :> new_dtype),
     mapper |-> TypeInferenceMapper(SpecializedTable(old_dtype)),
     return_tuple |-> return_tuple,
     res |-> <<>>]

InitEval ==
    /\ kernel = EvalKernel @@ [temporary_variables |-> ("x" :> "int32"),
                               arg_dict |-> ("y" :> "int32")]
    /\ callables_table = ProgramTable
    /\ expect_completion = FALSE
    /\ order = <<"x", "y">>
    /\ d = NotCalled
    /\ \E old_dtype \in NumpyNative, new_dtype \in NumpyNative \cup {NoneT},
          return_tuple \in BOOLEAN :
           ev = Evaluation(old_dtype, new_dtype, return_tuple)
    /\ program = NoProgram

\* the evaluation once the mapper returned r
evaluated(e, r) ==
    [e EXCEPT !.phase = "evaluated", !.mapper = r.m, !.res = r.res]

\* TypeInferenceMapper.__call__ on the expression
Evaluate ==
    /\ ev.phase = "ready"
    /\ ev' = evaluated(ev, call_dtype_set(ev.expr, ev.mapper, EvalKernel, ev.env,
                                          ev.return_tuple))
    /\ UNCHANGED <<kernel, callables_table, expect_completion, order, d, program>>

SpecEval == InitEval /\ [][Evaluate]_vars

\* ------------------------------------------------------------------------
\* infer_unknown_types (lines 1043-1072) on a program whose callables table
\* holds the root kernel next to the callables of ProgramTable.
\* A CallablesTable is the record
\*   callables        name -> callable
\*   callables_count  the count of committed entries
\*   edit_depth       the number of edit-mode transactions it is inside of
\* The frame of infer_unknown_types is the record
\*   pc               "entered" (the driver runs), "registered" (line 1065
\*                    is passed), "returned", "raised"
\*   name, table      program.name and program.callables_table
\*   old_callables_count, callables_table   the locals of those names
\*   entries, exits   the calls of with_edit_callables_mode and of
\*                    with_exit_edit_callables_mode so far
\*   exit_count       the count the exit was called with
\* ------------------------------------------------------------------------
CallablesTable(callables, callables_count, edit_depth) ==
    [callables |-> callables, callables_count |-> callables_count,
     edit_depth |-> edit_depth]

with_edit_callables_mode(table) == [table EXCEPT !.edit_depth = @ + 1]

\* the transaction is folded back into the parent: the outermost exit commits
\* every entry, an inner one leaves the count it is given
with_exit_edit_callables_mode(table, old_callables_count) ==
    [table EXCEPT !.edit_depth = @ - 1,
                  !.callables_count =
                      IF table.edit_depth = 1
                      THEN Cardinality(DOMAIN table.callables)
                      ELSE old_callables_count]

RootName == "knl"

\* the callable of the root kernel
CallableKernel(subkernel) ==
    [base |-> RootName, specialized |-> FALSE, a2d |-> EmptyMap, nres |-> 0,
     mangler |-> FALSE, subkernel |-> subkernel]

\* a call that never enters edit mode
enter_without_edit_mode(name, table) ==
    [pc |-> "entered", name |-> name, table |-> table,
     old_callables_count |-> table.callables_count,
     callables_table |-> table,
     entries |-> 0, exits |-> 0, exit_count |-> -1]

\* lines 1047-1055
infer_unknown_types_enter(name, table) ==
    [pc |-> "entered", name |-> name, table |-> table,
     old_callables_count |-> table.callables_count,
     callables_table |-> with_edit_callables_mode(table),
     entries |-> 1, exits |-> 0, exit_count |-> -1]

\* lines 1056-1065: the driver returned; the root kernel is registered again
infer_unknown_types_register(f, driver) ==
    IF driver.outcome.status = "raised" THEN [f EXCEPT !.pc = "raised"]
    ELSE [f EXCEPT !.pc = "registered",
                   !.callables_table.callables =
                       with_callable(driver.callables_table,
                                     CallableKernel(driver.result)).table]

\* lines 1067-1072
infer_unknown_types_exit(f) ==
    [f EXCEPT !.pc = "returned",
              !.callables_table =
                  with_exit_edit_callables_mode(@, f.old_callables_count),
              !.exits = @ + 1,
              !.exit_count = f.old_callables_count]

\* the table of the program: not in a transaction, or inside the transaction
\* of a caller that has added f_0 and not committed it
RootTable == ProgramTable @@ (RootName :> CallableKernel(Kernel(<<>>, EmptyMap)))

ProgramTables ==
    {CallablesTable(RootTable, 3, 0), CallablesTable(RootTable, 2, 1)}

InitProgram ==
    /\ \E q \in Kernels, ty \in {NoneT, "int32"} :
           kernel = q @@
                    [temporary_variables |-> ("x" :> NoneT), arg_dict |-> ("y" :> ty)]
    /\ callables_table = RootTable
    /\ expect_completion \in BOOLEAN
    /\ order = <<"x", "y">>
    /\ d = NotCalled
    /\ ev = NoEval
    /\ \E table \in ProgramTables :
           program = [pc |-> "start", name |-> RootName, table |-> table]

\* lines 1047-1057: up to the call of the driver, and its lines 805-866
Call ==
    /\ program.pc = "start"
    /\ program' = infer_unknown_types_enter(program.name, program.table)
    /\ d' = driver_start(kernel, kernel.temporary_variables, kernel.arg_dict,
                         program.table.callables, order)
    /\ UNCHANGED <<kernel, callables_table, expect_completion, order, ev>>

\* lines 1059-1065, or the exception of the driver leaves the function
Register ==
    /\ program.pc = "entered" /\ d.pc = "done"
    /\ program' = infer_unknown_types_register(program, d)
    /\ UNCHANGED <<kernel, callables_table, expect_completion, order, d, ev>>

\* lines 1067-1072
Exit ==
    /\ program.pc = "registered"
    /\ program' = infer_unknown_types_exit(program)
    /\ UNCHANGED <<kernel, callables_table, expect_completion, order, d, ev>>

NextProgram ==
    Call \/ ForNextScc \/ LoopExit \/ Iterate \/ ForcingPass \/ Finish
    \/ Register \/ Exit

SpecProgram == InitProgram /\ [][NextProgram]_vars

\* ------------------------------------------------------------------------
\* The methods of the mapper on their own: combine on a pair of one-element
\* dtype sets, in both orders, and the mapper on an expression over the
\* variables a and b.
\* ------------------------------------------------------------------------
DTypes == NumpyTypes \cup NonNumpy

B == Var("b")

ExprPool ==
    { Sum(<<A, IntLit(1)>>), Sum(<<IntLit(1), IntLit(2)>>),
      Sum(<<A, IntLit(SmallIntThreshold)>>), Sum(<<A, IntLit(1 - SmallIntThreshold)>>),
      Sum(<<A, B, IntLit(1)>>), Product(<<IntLit(2), A, B>>),
      Product(<<IntLit(2), A>>),
      Quotient(A, B), Quotient(A, IntLit(1)), Quotient(IntLit(1), IntLit(2)),
      VCall("h", <<A, B>>), VCall("h", <<A>>), VCall("h", <<>>),
      VCall("g", <<A>>),
      VCall("n", <<A, B>>),
      Comparison(A, B), Comparison(RCall("f", <<A>>), B),
      LogicalAnd(<<A, RCall("f", <<B>>)>>), LogicalOr(<<A, B>>),
      LogicalNot(A), LogicalNot(RCall("f", <<A>>)),
      A, TypeCast("float32", A), RCall("f", <<A>>), RCall("f_0", <<A>>),
      RCallKw("f", <<A>>, <<<<KwId, B>>>>), VCallKw("h", <<A>>, <<<<KwId, B>>>>),
      Sum(<<RCall("f", <<A>>), VCall("h", <<B>>)>>),
      Sum(<<RCall("f", <<A>>), VCallKw("h", <<A>>, <<<<KwId, B>>>>)>>) }

ReductionPool ==
    { Reduction(A), Reduction(Sum(<<A, B>>)), Reduction(NumLit(NoneT)),
      Reduction(RCall("f", <<A>>)),
      TupleReduction(2, <<A, B>>), TupleReduction(2, <<A, NumLit(NoneT)>>),
      TupleReduction(2, <<RCall("f", <<A>>)>>), TupleReduction(2, <<Sum(<<A, B>>)>>) }

MapperEvaluation(expr, ta, tb) ==
    [phase |-> "ready", expr |-> expr, env |-> ("a" :> ta) @@ ("b" :> tb),
     mapper |-> TypeInferenceMapper(ProgramTable), return_tuple |-> FALSE,
     res |-> <<>>]

\* the caller's table with a callable of two results
ArityTable == ProgramTable @@ ("p" :> GenericCallable("p", 2))

\* calls and reductions of one result and of two
ArityPool ==
    { RCall("f", <<A>>), RCall("p", <<A>>),
      VCall("h", <<A>>), VCall("h2", <<A>>),
      Reduction(A), TupleReduction(2, <<A, B>>),
      Reduction(RCall("f", <<A>>)), TupleReduction(2, <<RCall("p", <<A>>)>>) }

ArityEvaluation(expr, ta, tb, return_tuple) ==
    [MapperEvaluation(expr, ta, tb) EXCEPT
        !.mapper = TypeInferenceMapper(ArityTable),
        !.return_tuple = return_tuple]

InitMapper ==
    /\ kernel = EvalKernel @@ [temporary_variables |-> ("x" :> "int32"),
                               arg_dict |-> ("y" :> "int32")]
    /\ callables_table = ProgramTable
    /\ expect_completion = FALSE
    /\ order = <<"x", "y">>
    /\ d = NotCalled
    /\ program = NoProgram
    /\ \E a \in DTypes \cup {NoneT}, b \in DTypes \cup {NoneT} :
           \/ a # NoneT /\ b # NoneT /\ ev = [phase |-> "pair", a |-> a, b |-> b]
           \/ \E expr \in ExprPool : ev = MapperEvaluation(expr, a, b)
           \/ \E expr \in ArityPool, return_tuple \in BOOLEAN :
                  ev = ArityEvaluation(expr, a, b, return_tuple)
           \/ \E expr \in ReductionPool, unknown_types_ok \in BOOLEAN :
                  ev = [phase |-> "reduction", expr |-> expr,
                        env |-> ("a" :> a) @@ ("b" :> b),
                        unknown_types_ok |-> unknown_types_ok]

\* TypeInferenceMapper.combine([[a], [b]]) and combine([[b], [a]])
Combine ==
    /\ ev.phase = "pair"
    /\ ev' = [phase |-> "combined", a |-> ev.a, b |-> ev.b,
              ab |-> combine(<<<<ev.a>>, <<ev.b>>>>),
              ba |-> combine(<<<<ev.b>>, <<ev.a>>>>)]
    /\ UNCHANGED <<kernel, callables_table, expect_completion, order, d, program>>

\* the standalone entry point on the reduction
InferReduction ==
    /\ ev.phase = "reduction"
    /\ ev' = [ev EXCEPT !.phase = "inferred"]
              @@ [out |-> infer_arg_and_reduction_dtypes_for_reduction_expression(
                              EvalKernel, ev.expr, ProgramTable, ev.env,
                              ev.unknown_types_ok)]
    /\ UNCHANGED <<kernel, callables_table, expect_completion, order, d, program>>

NextMapper == Combine \/ Evaluate \/ InferReduction

SpecMapper == InitMapper /\ [][NextMapper]_vars

\* ------------------------------------------------------------------------
\* The driver on kernels whose instructions differ in kind and in the form
\* of their assignee.
\* ------------------------------------------------------------------------
UnknownKind == "CustomInstruction"

AssigneePool ==
    { Assignment(X, One),
      Assignment(Subscript(X, Var("i")), F32),
      Assignment(Lookup(X, "re"), One),
      Assignment(Y, X),
      Assignment(X, Sum(<<X, One>>)),
      Assignment(Subscript(Y, Var("i")), One),
      CallInstruction(<<X>>, RCall("f", <<Y>>)),
      CallInstruction(<<SubArrayRef(Subscript(X, Var("i")))>>, RCall("f", <<Y>>)),
      CallInstruction(<<SubArrayRef(Subscript(Y, Var("i")))>>, RCall("f", <<X>>)),
      Insn("NoOp", <<>>, One),
      Insn("CInstruction", <<>>, One),
      Insn(UnknownKind, <<>>, One) }

InitAssignees ==
    /\ \E q \in SeqsUpTo(AssigneePool, MaxInsns) \ {<<>>},
          tx \in {NoneT, "float32"}, ty \in {NoneT, "float32"} :
           kernel = Kernel(q, EmptyMap) @@
                    [temporary_variables |-> ("x" :> tx), arg_dict |-> ("y" :> ty)]
    /\ callables_table = ProgramTable
    /\ expect_completion \in BOOLEAN
    /\ order = <<"x", "y">>
    /\ d = NotCalled
    /\ ev = NoEval
    /\ program = NoProgram

SpecAssignees == InitAssignees /\ [][Next]_vars

\* ------------------------------------------------------------------------
\* combine on a list of up to three dtype sets, each empty or of one type,
\* in every order of the list and without its empty sets.
\* ------------------------------------------------------------------------
MaxSets == 3

DtypeSets == {<<>>} \cup {<<t>> : t \in DTypes}

\* the orders of the list l
Reorderings(l) ==
    {[i \in 1..Len(l) |-> l[q[i]]] :
        q \in {r \in [1..Len(l) -> 1..Len(l)] :
                  \A i, j \in 1..Len(l) : r[i] = r[j] => i = j}}

InitCombine ==
    /\ kernel = EvalKernel @@ [temporary_variables |-> ("x" :> "int32"),
                               arg_dict |-> ("y" :> "int32")]
    /\ callables_table = ProgramTable
    /\ expect_completion = FALSE
    /\ order = <<"x", "y">>
    /\ d = NotCalled
    /\ program = NoProgram
    /\ \E n \in 1..MaxSets : \E l \in [1..n -> DtypeSets] :
           ev = [phase |-> "list", dtype_sets |-> l]

\* TypeInferenceMapper.combine(dtype_sets), on every order of dtype_sets and
\* on dtype_sets without its empty sets
CombineList ==
    /\ ev.phase = "list"
    /\ ev' = [phase |-> "listed", dtype_sets |-> ev.dtype_sets,
              out |-> combine(ev.dtype_sets),
              reordered |-> {combine(l) : l \in Reorderings(ev.dtype_sets)},
              dense |-> combine(SelectSeq(ev.dtype_sets, LAMBDA t : t # <<>>))]
    /\ UNCHANGED <<kernel, callables_table, expect_completion, order, d, program>>

NextCombine == CombineList

SpecCombine == InitCombine /\ [][NextCombine]_vars

\* ------------------------------------------------------------------------
\* The driver on kernels of three variables x, y (argument) and z, each
\* written by one instruction.
\* ------------------------------------------------------------------------
Z == Var("z")

WritersOfX == {Assignment(X, Sum(<<Y, One>>)), Assignment(X, Y), Assignment(X, One)}

WritersOfY ==
    {Assignment(Y, Product(<<X, F32, Z>>)), Assignment(Y, Product(<<X, F32>>)),
     Assignment(Y, Z)}

WritersOfZ == {Assignment(Z, Comparison(Z, Y)), Assignment(Z, X), Assignment(Z, F32)}

Permutations3 ==
    {q \in [1..3 -> {"x", "y", "z"}] : \A i, j \in 1..3 : q[i] = q[j] => i = j}

InitThree ==
    /\ \E wx \in WritersOfX, wy \in WritersOfY, wz \in WritersOfZ :
           kernel = [Kernel(<<wx, wy, wz>>, EmptyMap) EXCEPT !.temps = <<"x", "z">>]
                    @@ [temporary_variables |-> ("x" :> NoneT) @@ ("z" :> NoneT),
                        arg_dict |-> ("y" :> NoneT)]
    /\ callables_table = ProgramTable
    /\ expect_completion \in BOOLEAN
    /\ order \in Permutations3
    /\ d = NotCalled
    /\ ev = NoEval
    /\ program = NoProgram

SpecThree == InitThree /\ [][Next]_vars

\* ------------------------------------------------------------------------
\* Properties.
\* ------------------------------------------------------------------------
Done == d.pc = "done"

ReturnedNormally == Done /\ d.outcome.status = "returned"

\* the dtypes of the caller's kernel when inference was called
InputDtypes == kernel.temporary_variables @@ kernel.arg_dict

\* C1: with expect_completion set, a call that returns normally returns a
\* kernel in which every argument and temporary has a dtype, and a call in
\* which the driver gave up on a variable fails with the LoopyError "could
\* not determine type of <name>" that names the variable.
C1_CompleteOrCouldNotDetermine ==
    (Done /\ expect_completion) =>
        /\ d.outcome.status = "returned" =>
               \A n \in DOMAIN d.result.dtype : d.result.dtype[n] # NoneT
        /\ d.gave_up # {} =>
               /\ d.outcome.status = "raised"
               /\ d.outcome.exc = "LoopyError"
               /\ d.outcome.msg = CouldNotDetermine
               /\ d.outcome.name \in d.gave_up

\* C2: with expect_completion unset, a variable the driver gives up on
\* causes no error: nothing is raised where the driver gives up, no
\* DependencyTypeInferenceFailure for the unknown variable ends the call,
\* and in the kernel the call returns the dtype of the variable is None.
C2_GiveUpNeverRaises ==
    (Done /\ ~expect_completion /\ d.gave_up # {}) =>
        /\ d.outcome.site # "give_up"
        /\ d.outcome.exc # "DependencyTypeInferenceFailure"
        /\ d.outcome.status = "returned" =>
               \A n \in d.gave_up : d.result.dtype[n] = NoneT

\* C3: the driver halts: from every state it is in, the call returns or
\* raises within MaxSteps further steps of the driver.
C3_DriverHalts ==
    d.pc # "start" => run(d, kernel, expect_completion, MaxSteps).pc = "done"

\* a cycle of two variables without a type ended by the give-up rule, as
\* the error "could not determine type" when completion is required
C3_Witness ==
    /\ Done /\ expect_completion
    /\ Len(d.var_chain) = 2
    /\ d.gave_up # {}
    /\ d.outcome.exc = "LoopyError" /\ d.outcome.msg = CouldNotDetermine

\* C4: whether the call returns or raises, the dicts of the caller's kernel
\* hold the dtypes they held when inference was called, and the entries of
\* the caller's callables table are in the driver's table as they were.
C4_InputsUnchanged ==
    d.pc # "start" =>
        /\ d.temporary_variables = kernel.temporary_variables
        /\ d.arg_dict = kernel.arg_dict
        /\ \A n \in DOMAIN callables_table :
               n \in DOMAIN d.callables_table
               /\ d.callables_table[n] = callables_table[n]

\* the call raised after the driver had stored a new dtype
C4_Witness ==
    /\ Done /\ d.outcome.status = "raised"
    /\ item_lookup(d) # InputDtypes

\* C5: no call of inference ends with a DependencyTypeInferenceFailure.
C5_DependencyFailureNeverSurfaces ==
    ~(Done /\ d.outcome.exc = "DependencyTypeInferenceFailure")

\* the frame in which the body of the while loop runs next: line 884
at_loop_body(f) ==
    IF f.queue = <<>> THEN [f EXCEPT !.queue = f.var_chain] ELSE f

\* the while loop is about to call _infer_var_type: lines 873-890
EvaluatesNext ==
    /\ d.pc = "while" /\ loop_continues(d)
    /\ ~(/\ d.queue = <<>>
         /\ Len(d.var_chain) = 1
         /\ d.var_chain[1] \notin d.dep_graph[d.var_chain[1]])

\* what that call of _infer_var_type comes to
NextEvaluation ==
    LET k == IF DOMAIN kernel.substitutions # {} THEN expand_subst(kernel)
             ELSE kernel
        f == at_loop_body(d)
    IN infer_var_type(k, Head(f.queue), f.type_inf_mapper, item_lookup(f))

\* C6 as stated: with expect_completion unset a TypeInferenceFailure raised
\* while the writers of a variable are evaluated does not end the call; the
\* variable is left unresolved and inference returns.
C6_FailureHandledByGiveUp ==
    (Done /\ ~expect_completion) =>
        ~(d.outcome.exc = "TypeInferenceFailure" /\ d.outcome.site = "infer")

\* C6: a TypeInferenceFailure raised while the writers of a variable are
\* evaluated ends the call at once, with expect_completion set or unset:
\* the call raises that TypeInferenceFailure, the driver gives up on no
\* variable for it and stores no dtype.
C6_FailureEndsTheCall ==
    [][(EvaluatesNext /\ NextEvaluation.exc = "TypeInferenceFailure") =>
           /\ d'.pc = "done"
           /\ d'.outcome.status = "raised"
           /\ d'.outcome.exc = "TypeInferenceFailure"
           /\ d'.outcome.site = "infer"
           /\ d'.gave_up = d.gave_up
           /\ item_lookup(d') = item_lookup(d)]_vars

\* a call with expect_completion unset ended by a TypeInferenceFailure of
\* the evaluation of the writers of a variable
C6_Witness ==
    /\ Done /\ ~expect_completion
    /\ d.outcome.status = "raised"
    /\ d.outcome.exc = "TypeInferenceFailure" /\ d.outcome.site = "infer"

\* what the call comes to when compute_sccs meets the names in the order o
RunInOrder(o) ==
    run(driver_start(kernel, kernel.temporary_variables, kernel.arg_dict,
                     callables_table, o),
        kernel, expect_completion, MaxSteps)

\* C7: two runs of inference on the same kernel and the same callables
\* table that both return give every variable the same dtype, whatever the
\* order in which the names are enumerated.
C7_SameTypesInEveryOrder ==
    ReturnedNormally =>
        \A o \in Orders :
            RunInOrder(o).outcome.status = "returned" =>
                RunInOrder(o).result.dtype = d.result.dtype

AllTyped(dtypes) == \A n \in DOMAIN dtypes : dtypes[n] # NoneT

\* C8 as stated: inference on a kernel in which every argument and
\* temporary has a dtype returns the kernel and the table it was given: no
\* dtype changes, no call is renamed, the table gets no specialization.
C8_TypedKernelUnchanged ==
    (ReturnedNormally /\ AllTyped(InputDtypes)) =>
        /\ d.result.dtype = InputDtypes
        /\ d.result.insns = kernel.insns
        /\ d.callables_table = callables_table

\* the kernel the call returned
ReturnedKernel ==
    [kernel EXCEPT
        !.insns = d.result.insns,
        !.temporary_variables = [n \in DOMAIN @ |-> d.result.dtype[n]],
        !.arg_dict = [n \in DOMAIN @ |-> d.result.dtype[n]]]

\* inference run again, on the kernel and the table the call returned
SecondRun ==
    run(driver_start(ReturnedKernel, ReturnedKernel.temporary_variables,
                     ReturnedKernel.arg_dict, d.callables_table, order),
        ReturnedKernel, expect_completion, MaxSteps)

\* C8: inference on the kernel and the table a run of inference returned,
\* every argument and temporary of that kernel having a dtype, returns that
\* kernel and that table: no dtype changes, no call is renamed, the table
\* gets no specialization.
C8_SecondRunUnchanged ==
    (ReturnedNormally /\ AllTyped(d.result.dtype)) =>
        /\ SecondRun.pc = "done"
        /\ SecondRun.outcome.status = "returned"
        /\ SecondRun.result = d.result
        /\ SecondRun.callables_table = d.callables_table

\* a run that typed a variable and renamed a call to a specialization it
\* added to the table
C8_Witness ==
    /\ ReturnedNormally /\ AllTyped(d.result.dtype)
    /\ ~AllTyped(InputDtypes)
    /\ d.result.insns # kernel.insns
    /\ d.callables_table # callables_table

\* C9: in the kernel the call returns no call node is left under its old
\* name whose literal form or whose form with the substitution rules
\* expanded is a key of the rename table.
C9_RecordedCallsRenamed ==
    ReturnedNormally =>
        \A i \in 1..Len(d.result.insns) :
            \A c \in CallsOf(d.result.insns[i].expression) :
                \A key \in {c, Expand(c, kernel.substitutions)} :
                    key \in DOMAIN d.old_calls_to_new_calls =>
                        c.name = d.old_calls_to_new_calls[key]

\* the new type is one the callable may be specialized with again
Widening(old_dtype, new_dtype) ==
    \/ old_dtype = "uint32" /\ new_dtype = "int32"
    \/ old_dtype = "uint64" /\ new_dtype = "int64"
    \/ CanCast(new_dtype, old_dtype)

\* C10: a call to a callable specialized for the type old_dtype, with an
\* argument of another type new_dtype, is evaluated without error when old
\* is uint32 and new int32, or old uint64 and new int64, or new casts
\* safely to old, and raises the LoopyError "Overwriting a specialized
\* function" otherwise; uint32 then int32 succeeds, float32 then int32
\* raises.
C10_WideningException ==
    (ev.phase = "evaluated" /\ ev.new_dtype # NoneT
                            /\ ev.new_dtype # ev.old_dtype) =>
        /\ Widening(ev.old_dtype, ev.new_dtype) => ev.mapper.exc = "none"
        /\ ~Widening(ev.old_dtype, ev.new_dtype) =>
               ev.mapper.exc = "LoopyError" /\ ev.mapper.msg = "overwrite"
        /\ (ev.old_dtype = "uint32" /\ ev.new_dtype = "int32") =>
               ev.mapper.exc = "none"
        /\ (ev.old_dtype = "float32" /\ ev.new_dtype = "int32") =>
               ev.mapper.exc = "LoopyError"

\* the callable specialized for uint32 was specialized again for int32
C10_Witness ==
    /\ ev.phase = "evaluated"
    /\ ev.old_dtype = "uint32" /\ ev.new_dtype = "int32"
    /\ ev.mapper.exc = "none"
    /\ ev.res # <<>>

\* the table is being edited by this call: it is one transaction deeper than
\* the program's table, entered once and not left
InWindow ==
    /\ program.entries = 1 /\ program.exits = 0
    /\ program.callables_table.edit_depth = program.table.edit_depth + 1

\* the call left the transaction once, with the count read before entry
LeftOnce ==
    /\ program.entries = 1 /\ program.exits = 1
    /\ program.exit_count = program.table.callables_count
    /\ program.callables_table.edit_depth = program.table.edit_depth

\* C11: every call of infer_unknown_types enters edit mode once before a
\* callable is added, mutates the table inside that window only, and exits
\* once with the count read before entry.
C11_EntriesAndExitsBalance ==
    /\ program.pc \in {"entered", "registered"} => InWindow
    /\ program.pc \in {"returned", "raised"} => LeftOnce

\* C11, amended: the exit belongs to the calls that return; a call the driver
\* raises out of has entered once and never exits.
C11_ReturningCallsBalance ==
    /\ program.pc \in {"entered", "registered", "raised"} => InWindow
    /\ program.pc = "returned" => LeftOnce

\* a call inside a caller's transaction that added a specialization returned
C11_Witness ==
    /\ program.pc = "returned"
    /\ program.table.edit_depth = 1
    /\ DOMAIN d.callables_table # DOMAIN program.table.callables
    /\ program.callables_table.callables_count = program.table.callables_count

\* C12: combining a with b and b with a either gives the same type in both
\* orders or raises TypeInferenceFailure in both.
C12_PromotionSymmetric ==
    ev.phase = "combined" =>
        /\ ev.ab.exc = ev.ba.exc
        /\ ev.ab.exc \in {"none", "TypeInferenceFailure"}
        /\ ev.ab.exc = "none" =>
               /\ Len(ev.ab.res) = 1 /\ Len(ev.ba.res) = 1
               /\ TEq(ev.ab.res[1], ev.ba.res[1])

\* two distinct native types were promoted to a third
C12_Witness ==
    /\ ev.phase = "combined"
    /\ ev.a = "uint32" /\ ev.b = "int32"
    /\ ev.ab.res = <<"int64">> /\ ev.ba.res = <<"int64">>

\* the dtype set of an operand of the evaluated expression
OperandDtypes(e) == rec(e, TypeInferenceMapper(ProgramTable), EvalKernel, ev.env).res

SmallLiteral(e) == e.op = "const" /\ e.name = "int" /\ -1024 < e.val /\ e.val < 1024

\* the operands that are no small integer literals, and their dtype sets
OtherOperands == SelectSeq(ev.expr.args, LAMBDA e : ~SmallLiteral(e))

OtherDtypeSets == [i \in 1..Len(OtherOperands) |-> OperandDtypes(OtherOperands[i])]

SmallLiterals == SelectSeq(ev.expr.args, SmallLiteral)

\* the combination the claim describes
DeferredCombination ==
    combine(OtherDtypeSets
            \o IF \A i \in 1..Len(OtherDtypeSets) :
                      \A j \in 1..Len(OtherDtypeSets[i]) :
                          OtherDtypeSets[i][j] \in {"int32", "int64", "uint32", "uint64"}
               THEN [i \in 1..Len(SmallLiterals) |-> <<"int32">>]
               ELSE <<>>)

\* C13: in a sum or product the small integer literals take part in the
\* combination exactly when every other operand of known type is integral;
\* x + 1 with x float32 is float32, 1 + 2 is int32.
C13_SmallIntegersDeferred ==
    (ev.phase = "evaluated" /\ ev.expr.op \in {"sum", "product"}) =>
        /\ ev.mapper.exc = DeferredCombination.exc
        /\ ev.mapper.exc = "none" => ev.res = DeferredCombination.res
        /\ (ev.expr = Sum(<<A, IntLit(1)>>) /\ ev.env["a"] = "float32")
               => ev.res = <<"float32">>
        /\ ev.expr = Sum(<<IntLit(1), IntLit(2)>>) => ev.res = <<"int32">>

\* a sum of a complex64 variable and a small literal was evaluated
C13_Witness ==
    /\ ev.phase = "evaluated"
    /\ ev.expr = Sum(<<A, IntLit(1)>>)
    /\ ev.env["a"] = "complex64"
    /\ ev.res = <<"complex64">>

Integral == {"int32", "int64", "uint32", "uint64"}

\* the dtype sets of numerator and denominator
QuotientDtypeSets == <<OperandDtypes(ev.expr.args[1]), OperandDtypes(ev.expr.args[2])>>

BothResolved == QuotientDtypeSets[1] # <<>> /\ QuotientDtypeSets[2] # <<>>

\* C14: a quotient of two operands resolved to integer types is float64; a
\* quotient of a floating or mixed pair follows the combination rule.
C14_DivisionSemantics ==
    (ev.phase = "evaluated" /\ ev.expr.op = "quotient" /\ BothResolved) =>
        IF QuotientDtypeSets[1][1] \in Integral /\ QuotientDtypeSets[2][1] \in Integral
        THEN ev.mapper.exc = "none" /\ ev.res = <<"float64">>
        ELSE /\ ev.mapper.exc = combine(QuotientDtypeSets).exc
             /\ ev.mapper.exc = "none" => ev.res = combine(QuotientDtypeSets).res

\* int32 / int32 was evaluated
C14_Witness ==
    /\ ev.phase = "evaluated"
    /\ ev.expr = Quotient(A, B)
    /\ ev.env["a"] = "int32" /\ ev.env["b"] = "int32"
    /\ ev.res = <<"float64">>

\* ------------------------------------------------------------------------
\* C15: the standalone reduction entry point
\* ------------------------------------------------------------------------
Inferred == ev.phase = "inferred"

\* the mapper's own evaluation of the reduction, as a set of dtypes
ReductionDtypeSet ==
    call_dtype_set(ev.expr, TypeInferenceMapper(ProgramTable), EvalKernel,
                   ev.env, is_tuple_typed(ev.expr))

ArgCount == IF is_tuple_typed(ev.expr) THEN ev.expr.val ELSE 1

Placeholders == [i \in 1..ArgCount |-> Auto]

ReturnedTypes ==
    /\ ev.out.exc = "none"
    /\ \A i \in 1..Len(ev.out.arg_dtypes) : ev.out.arg_dtypes[i] # Auto
    /\ ev.out.arg_dtypes # <<>>
    /\ ev.out.reduction_dtypes = ev.out.arg_dtypes

ReturnedPlaceholders ==
    /\ ev.out.exc = "none"
    /\ ev.out.arg_dtypes = Placeholders

RaisedFailedToDetermine ==
    /\ ev.out.exc = "LoopyError"
    /\ ev.out.msg = FailedToDetermine

C15_RaisesUnderUnknownTypesOk ==
    /\ Inferred
    /\ ev.unknown_types_ok
    /\ ev.out.exc = "TypeInferenceFailure"

\* ------------------------------------------------------------------------
\* C16: the give-up rule
\* ------------------------------------------------------------------------
Evaluations == d.evaluations

EvaluationsOf(n) ==
    SelectSeq(Evaluations, LAMBDA evaluation : evaluation.name = n)

\* two evaluations of n, one directly after the other among those of n,
\* that both failed
FailedTwiceInARow(n) ==
    \E i \in 1..(Len(EvaluationsOf(n)) - 1) :
        EvaluationsOf(n)[i].failed /\ EvaluationsOf(n)[i + 1].failed

\* two failed evaluations of n with no successful evaluation of any name
\* between them
FailedTwiceWithoutProgress(n) ==
    \E i, j \in 1..Len(Evaluations) :
        /\ i < j
        /\ Evaluations[i].name = n /\ Evaluations[i].failed
        /\ Evaluations[j].name = n /\ Evaluations[j].failed
        /\ \A l \in (i + 1)..(j - 1) : Evaluations[l].failed

Names == DOMAIN item_lookup(d)

InLoop == d.pc \in {"for", "while", "forcing", "finish", "done"}

\* the last evaluation failed and the loop goes on: the name is retried last
RequeuedAtTheEnd ==
    (/\ d.pc = "while"
     /\ Evaluations # <<>>
     /\ Evaluations[Len(Evaluations)].failed
     /\ Evaluations[Len(Evaluations)].name \in SeqRange(d.var_chain))
    => /\ d.queue # <<>>
       /\ d.queue[Len(d.queue)] = Evaluations[Len(Evaluations)].name

\* C16 (as stated): the driver gives up on a name exactly when its
\* evaluation failed twice in a row with no progress on that name between
\* the two; a first failure puts the name back at the end of the queue.
C16_GivesUpAtSecondFailureInARow ==
    InLoop =>
        /\ \A n \in Names : n \in d.gave_up <=> FailedTwiceInARow(n)
        /\ RequeuedAtTheEnd

\* C16 (amended): the driver gives up on a name exactly when its evaluation
\* fails and it has failed before with no successful evaluation of any name
\* in between; a failure that does not give up puts the name back at the end
\* of the queue, and no name is given up on at its first failure.
C16_GivesUpAfterFailuresWithoutProgress ==
    InLoop =>
        /\ \A n \in Names : n \in d.gave_up <=> FailedTwiceWithoutProgress(n)
        /\ \A n \in d.gave_up :
               Len(SelectSeq(EvaluationsOf(n), LAMBDA evaluation : evaluation.failed)) >= 2
        /\ RequeuedAtTheEnd

\* a name given up on at its third failure: another name made progress
\* between its first two
C16_Witness ==
    \E n \in d.gave_up :
        /\ Len(EvaluationsOf(n)) = 3
        /\ \A i \in 1..3 : EvaluationsOf(n)[i].failed
        /\ \E i \in 1..Len(Evaluations) : ~Evaluations[i].failed

\* ------------------------------------------------------------------------
\* C17: the error of the give-up rule
\* ------------------------------------------------------------------------
\* the name the driver gave up on last: the one of the last evaluation
GivenUpName == Evaluations[Len(Evaluations)].name

\* the names of unknown type that the writers of n read
UnknownSymbolsOf(n) == {s \in d.dep_graph[n] : item_lookup(d)[s] = NoneT}

GaveUpRequiringCompletion ==
    /\ Done /\ expect_completion
    /\ d.outcome.site = "give_up"

\* C17: when the driver gives up on a name with expect_completion set, the
\* call fails with the LoopyError "could not determine type" for that name,
\* never with another error, and the advice lists unknown symbols that the
\* writers of that very name read: none of another name's evaluation, and
\* at least one when the writers read a symbol of unknown type.
C17_AdviceOfTheNameGivenUp ==
    GaveUpRequiringCompletion =>
        /\ d.outcome.exc = "LoopyError"
        /\ d.outcome.msg = CouldNotDetermine
        /\ d.outcome.name = GivenUpName
        /\ d.outcome.advice \subseteq UnknownSymbolsOf(GivenUpName)
        /\ UnknownSymbolsOf(GivenUpName) # {} => d.outcome.advice # {}

\* the LoopyError is raised with the symbols of another name's evaluation
C17_StaleAdvice ==
    /\ GaveUpRequiringCompletion
    /\ d.outcome.exc = "LoopyError"
    /\ d.outcome.advice # UnknownSymbolsOf(GivenUpName)

\* ------------------------------------------------------------------------
\* C18: the renamings handed to the rewriter
\* ------------------------------------------------------------------------
\* line 1019: the rename table is handed to the rewriter
HandedToRewriter == d.pc = "finish"

\* the specializations the run added to the caller's table
AddedCallables == DOMAIN d.callables_table \ DOMAIN callables_table

Renamed == {d.old_calls_to_new_calls[call] : call \in DOMAIN d.old_calls_to_new_calls}

\* C18: the rename table handed to the rewriter holds every renaming that
\* an evaluation of the fixed-point loop returned, those of failed
\* evaluations included, and every specialization that the run added to the
\* callables table is the new name of some call in it.
C18_RenamingsReachTheRewriter ==
    HandedToRewriter =>
        /\ \A call \in DOMAIN d.renamings_produced :
               /\ call \in DOMAIN d.old_calls_to_new_calls
               /\ d.old_calls_to_new_calls[call] = d.renamings_produced[call]
        /\ AddedCallables \subseteq Renamed

\* a specialization in the table that no call is renamed to
C18_SpecializationWithoutRenaming ==
    /\ HandedToRewriter
    /\ AddedCallables \ Renamed # {}

\* ------------------------------------------------------------------------
\* C19: every instruction is evaluated by the loop or by the forcing pass
\* ------------------------------------------------------------------------
AssignmentsAndCalls ==
    {i \in 1..Len(kernel.insns) : kernel.insns[i].kind \in MultiAssignmentBase}

\* an assignee variable of the instruction had no type before the run
UnknownBefore(i) ==
    \E n \in SeqRange(assignee_var_names(kernel.insns[i])) : InputDtypes[n] = NoneT

\* the loop evaluated a variable that the instruction writes
EvaluatedByLoop(i) ==
    \E j \in 1..Len(Evaluations) :
        Evaluations[j].name \in SeqRange(assignee_var_names(kernel.insns[i]))

EvaluatedByForcingPass(i) == i \in d.forced

HasUnknownKind ==
    \E i \in 1..Len(kernel.insns) :
        kernel.insns[i].kind \notin MultiAssignmentBase \cup {"NoOp", "CInstruction"}

\* C19: the forcing pass evaluates the expression of an assignment or call
\* instruction exactly when none of its assignee variables had unknown type
\* before the run, so that every such instruction is evaluated by the loop
\* or by the pass and by one of them only; an instruction of an unknown kind
\* makes the pass fail.
C19_EvaluatedExactlyOnce ==
    /\ HandedToRewriter =>
           \A i \in AssignmentsAndCalls :
               /\ EvaluatedByForcingPass(i) <=> ~UnknownBefore(i)
               /\ EvaluatedByForcingPass(i) <=> ~EvaluatedByLoop(i)
    /\ HasUnknownKind =>
           /\ ~HandedToRewriter
           /\ Done => /\ d.outcome.status = "raised"
                      /\ d.outcome.site = "forcing" => d.outcome.exc = "NotImplementedError"

\* an instruction evaluated by the loop and by the forcing pass
C19_EvaluatedTwice ==
    /\ HandedToRewriter
    /\ \E i \in AssignmentsAndCalls : EvaluatedByForcingPass(i) /\ EvaluatedByLoop(i)

\* ------------------------------------------------------------------------
\* C20: calls to a bare function name and the kernel's manglers
\* ------------------------------------------------------------------------
BareCallEvaluated ==
    /\ ev.phase = "evaluated"
    /\ "expr" \in DOMAIN ev
    /\ ev.expr.op = "call" /\ ~IsResolved(ev.expr)

\* an argument of the call is a variable whose type is unknown
ArgumentUnknown ==
    \E i \in 1..Len(ev.expr.args) :
        /\ ev.expr.args[i].op = "var"
        /\ ev.env[ev.expr.args[i].name] = NoneT

\* C20: when the type of an argument of a call to a bare function name is
\* unknown, no mangler is consulted, no callable is added to the table and
\* the call yields the empty type set (without an error).
C20_ManglersNeedKnownArguments ==
    (BareCallEvaluated /\ ArgumentUnknown) =>
        /\ ev.mapper.mangler_calls = {}
        /\ ev.mapper.callables_table = ProgramTable
        /\ ev.mapper.exc = "none"
        /\ ev.res = <<>>

\* a mangler was called with an argument list that holds an unknown type
C20_ManglerCalledWithUnknown ==
    /\ BareCallEvaluated
    /\ \E c \in ev.mapper.mangler_calls :
           \E i \in 1..Len(c[2]) : c[2][i] = NoneT

\* ------------------------------------------------------------------------
\* C21: the number of results and the mode of the evaluation
\* ------------------------------------------------------------------------
ArityEvaluated ==
    /\ ev.phase = "evaluated"
    /\ "expr" \in DOMAIN ev
    /\ ev.expr \in ArityPool
    /\ ev.env["a"] \in NumpyTypes /\ ev.env["b"] \in NumpyTypes
    /\ "p" \in DOMAIN ev.mapper.callables_table

RECURSIVE ResultCount(_)
\* the number of results of the call or reduction
ResultCount(e) ==
    IF e.op = "reduction" THEN (IF is_tuple_typed(e) THEN e.val ELSE 1)
    ELSE IF IsResolved(e) THEN ArityTable[e.name].nres
    ELSE (CHOOSE mg \in SeqRange(EvalKernel.function_manglers) :
              mg.identifier = e.name).nres

ModeMismatch ==
    \/ ~ev.return_tuple /\ ResultCount(ev.expr) > 1
    \/ ev.return_tuple /\ ResultCount(ev.expr) = 1

\* C21: a call or reduction of several results evaluated for a single value,
\* or one of a single result evaluated for a tuple, ends in a LoopyError,
\* and no evaluation for a single value returns one of several result types.
C21_ModeMismatchIsAnError ==
    (ArityEvaluated /\ ModeMismatch) =>
        /\ ev.mapper.exc = "LoopyError"
        /\ ev.res = <<>>

\* the resolved callable of two results, asked for one value, gave one type
C21_OneOfSeveralReturned ==
    /\ ArityEvaluated
    /\ ev.expr = RCall("p", <<A>>)
    /\ ~ev.return_tuple
    /\ ev.mapper.exc = "none"
    /\ Len(ev.res) = 1

\* ------------------------------------------------------------------------
\* C22: comparisons and logical operators
\* ------------------------------------------------------------------------
LogicalOps == {"comparison", "logical_and", "logical_or", "logical_not"}

LogicalEvaluated ==
    /\ ev.phase = "evaluated"
    /\ "expr" \in DOMAIN ev
    /\ ev.expr.op \in LogicalOps

RECURSIVE CallsIn(_)
RECURSIVE CallsInAll(_)
CallsInAll(es) == IF es = <<>> THEN {} ELSE CallsIn(Head(es)) \cup CallsInAll(Tail(es))

\* the calls to resolved functions in the expression
CallsIn(e) ==
    (IF e.op = "call" /\ IsResolved(e) THEN {e} ELSE {}) \cup CallsInAll(e.args)

\* C22: a comparison, logical and, logical or or logical not evaluates to
\* int32 whatever the types of its operands, known or unknown, and every
\* call in its operands is recorded for renaming.
C22_Int32AndOperandsVisited ==
    LogicalEvaluated =>
        /\ ev.mapper.exc = "none"
        /\ ev.res = <<"int32">>
        /\ CallsIn(ev.expr) \subseteq DOMAIN ev.mapper.old_calls_to_new_calls.map

\* a comparison with an operand of unknown type ends in the dependency failure
C22_ComparisonOfUnknownFails ==
    /\ LogicalEvaluated
    /\ ev.expr = Comparison(A, B)
    /\ ev.mapper.exc = "DependencyTypeInferenceFailure"

\* the call in the operand of a logical not is not recorded
C22_NotSkipsItsOperand ==
    /\ LogicalEvaluated
    /\ ev.expr = LogicalNot(RCall("f", <<A>>))
    /\ ev.mapper.old_calls_to_new_calls.map = NoCalls

\* ------------------------------------------------------------------------
\* C23: the outcomes of an evaluation
\* ------------------------------------------------------------------------
ExpressionEvaluated ==
    /\ ev.phase = "evaluated"
    /\ "expr" \in DOMAIN ev

TypedFailures ==
    {"TypeInferenceFailure", "DependencyTypeInferenceFailure", "LoopyError"}

\* the argument a, of unknown type, on its own, cast, or passed to a call
UnknownArgumentPool ==
    {A, TypeCast("float32", A), RCall("f", <<A>>), RCall("f_0", <<A>>)}

\* C23: an evaluation with return_dtype_set ends with the empty set, with a
\* set of one type, or with a typed failure; a variable, a type cast or a
\* call whose argument has no type yet yields the empty set and records the
\* variable in symbols_with_unknown_types.
C23_EmptySingleOrTypedFailure ==
    ExpressionEvaluated =>
        /\ \/ ev.mapper.exc = "none" /\ Len(ev.res) <= 1
           \/ ev.mapper.exc \in TypedFailures /\ ev.res = <<>>
        /\ (ev.expr \in UnknownArgumentPool /\ ev.env["a"] = NoneT) =>
               /\ ev.mapper.exc = "none"
               /\ ev.res = <<>>
               /\ "a" \in ev.mapper.symbols_with_unknown_types

\* the cast of a variable of unknown type ends in ValueError
C23_CastOfUnknownFails ==
    /\ ExpressionEvaluated
    /\ ev.expr = TypeCast("float32", A)
    /\ ev.env["a"] = NoneT
    /\ ev.mapper.exc = "ValueError"

\* ------------------------------------------------------------------------
\* C24: the quotient of operands of unknown type
\* ------------------------------------------------------------------------
QuotientEvaluated ==
    /\ ev.phase = "evaluated"
    /\ "expr" \in DOMAIN ev
    /\ ev.expr.op = "quotient"

BothUnknown == QuotientDtypeSets[1] = <<>> /\ QuotientDtypeSets[2] = <<>>

\* C24: a quotient whose numerator and denominator both have no type yet
\* yields the empty set, and the float64 of true division is the result
\* only when both operand types are known and integral.
C24_UnknownQuotientIsEmpty ==
    QuotientEvaluated =>
        /\ BothUnknown => (ev.mapper.exc = "none" /\ ev.res = <<>>)
        /\ (ev.res = <<"float64">> /\ ~BothResolved) =>
               \E i \in 1..2 : /\ QuotientDtypeSets[i] # <<>>
                               /\ QuotientDtypeSets[i][1] \notin Integral

\* a / b with neither type known was evaluated to float64
C24_Float64FromUnknowns ==
    /\ QuotientEvaluated
    /\ ev.expr = Quotient(A, B)
    /\ ev.env["a"] = NoneT /\ ev.env["b"] = NoneT
    /\ ev.res = <<"float64">>

\* ------------------------------------------------------------------------
\* C25: the rename table of the evaluator
\* ------------------------------------------------------------------------
CallOps == {"call", "call_with_kwargs"}

RECURSIVE ResolvableCallsIn(_)
RECURSIVE ResolvableCallsInAll(_)
ResolvableCallsInAll(es) ==
    IF es = <<>> THEN {}
    ELSE ResolvableCallsIn(Head(es)) \cup ResolvableCallsInAll(Tail(es))

\* the calls to f and to the mangled h (with arguments for the mangler to
\* match on) that the mapper visits in the expression, plain or with keyword
\* arguments
ResolvableCallsIn(e) ==
    IF e.op = "logical_not" THEN {}
    ELSE (IF e.op \in CallOps /\ e.name \in {"f", "h"} /\ e.args # <<>>
          THEN {e} ELSE {})
         \cup ResolvableCallsInAll(e.args)

KnownArguments == ev.env["a"] \in NumpyTypes /\ ev.env["b"] \in NumpyTypes

\* C25: the rename table of the evaluator is a mapping from calls to names
\* at every point, and resolving a call, plain or with keyword arguments,
\* through a resolved function or a mangler sets the entry of that call and
\* leaves the other entries in place.
C25_RenameTableIsAMapping ==
    ExpressionEvaluated =>
        /\ ev.mapper.old_calls_to_new_calls.is_dict
        /\ (KnownArguments /\ ev.mapper.exc = "none") =>
               ResolvableCallsIn(ev.expr)
                   \subseteq DOMAIN ev.mapper.old_calls_to_new_calls.map

\* the entry of f(a) is gone after the mangled call with keyword arguments
C25_TableReplacedByAName ==
    /\ ExpressionEvaluated
    /\ ev.expr = Sum(<<RCall("f", <<A>>), VCallKw("h", <<A>>, <<<<KwId, B>>>>)>>)
    /\ ~ev.mapper.old_calls_to_new_calls.is_dict

\* ------------------------------------------------------------------------
\* C26: the returned types are a fixed point
\* ------------------------------------------------------------------------
\* the variables that received a type in this run
TypedInThisRun ==
    {n \in DOMAIN d.result.dtype : InputDtypes[n] = NoneT /\ d.result.dtype[n] # NoneT}

\* the writers of n evaluated and combined under the returned types
UnderFinalTypes(n) ==
    infer_var_type(IF DOMAIN kernel.substitutions # {} THEN expand_subst(kernel) ELSE kernel,
                   n, TypeInferenceMapper(d.callables_table), d.result.dtype)

\* C26: when inference returns normally, every variable that received a
\* type in the run has the type that the combination of its writer
\* expressions gives under the returned types.
C26_ReturnedTypesAreAFixedPoint ==
    ReturnedNormally =>
        \A n \in TypedInThisRun :
            /\ UnderFinalTypes(n).exc = "none"
            /\ UnderFinalTypes(n).result = <<d.result.dtype[n]>>

\* a run returned after the give-up rule left an SCC in which a variable
\* had been typed before the type of a variable it reads changed
C26_StaleTypeAfterGiveUp ==
    /\ ReturnedNormally
    /\ d.gave_up # {}
    /\ \E n \in TypedInThisRun : UnderFinalTypes(n).result # <<d.result.dtype[n]>>

\* ------------------------------------------------------------------------
\* C27: combine does not depend on the order of its list
\* ------------------------------------------------------------------------
ListCombined == ev.phase = "listed"

\* two outcomes of combine that == of Python does not tell apart
SameOutcome(r1, r2) ==
    /\ r1.exc = r2.exc
    /\ Len(r1.res) = Len(r2.res)
    /\ \A i \in 1..Len(r1.res) : TEq(r1.res[i], r2.res[i])

\* the dtype sets of the list are sets of numpy dtypes without fields
AllNative == \A i \in 1..Len(ev.dtype_sets) : \A j \in 1..Len(ev.dtype_sets[i]) : ev.dtype_sets[i][j] \in NumpyNative

\* C27: the result of combine is the same for every order of its list of
\* dtype sets, of two, three or more known types, and the empty sets of the
\* list do not change it.
C27_OrderAndEmptySetsDoNotMatter ==
    ListCombined =>
        /\ \A r \in ev.reordered : SameOutcome(r, ev.out)
        /\ SameOutcome(ev.dense, ev.out)

\* the empty sets of the list do not change the result of combine
C27_EmptySetsDoNotMatter == ListCombined => SameOutcome(ev.dense, ev.out)

\* at most two known types in the list: the order does not matter
C27_PairsDoNotDependOnOrder ==
    (ListCombined /\ Len(Flatten(ev.dtype_sets)) <= 2 /\ AllNative) =>
        \A r \in ev.reordered : SameOutcome(r, ev.out)

\* int32, float32 and complex64 combine to complex128 in this order and to
\* complex64 in another
C27_ThreeTypesDependOnOrder ==
    /\ ListCombined
    /\ ev.dtype_sets = <<<<"int32">>, <<"float32">>, <<"complex64">>>>
    /\ ev.out = [exc |-> "none", res |-> <<"complex128">>]
    /\ [exc |-> "none", res |-> <<"complex64">>] \in ev.reordered

====
